---- MODULE Spec2Model ----
(***************************************************************************)
(* Model of the Fastify authentication plugin (src/src/plugin.ts), its     *)
(* credential extractor and verification delegate (src/src/token.ts), its  *)
(* error taxonomy (errors.ts) and its permission helpers (permissions.ts). *)
(*                                                                         *)
(* JavaScript values are modelled as follows.                              *)
(*   - a string is a sequence of one-character strings, so that startsWith,*)
(*     slice and includes are computed and not assumed;                    *)
(*   - "T | undefined" and "T | null" are None (<<>>) or Some(x) (<<x>>);  *)
(*   - a claim of the JWT payload is a tagged value [t |-> typeof, v].     *)
(***************************************************************************)
EXTENDS Integers, Sequences, FiniteSets, TLC

\* ------------------------------------------------------------------------
\* Bounds of the model
\* ------------------------------------------------------------------------

\* number of requests the server handles one after the other in a behaviour
MaxServed == 2

\* ------------------------------------------------------------------------
\* JavaScript helpers
\* ------------------------------------------------------------------------

None == <<>>

Some(x) == <<x>>

\* String.prototype.startsWith
StartsWith(s, p) == Len(s) >= Len(p) /\ SubSeq(s, 1, Len(p)) = p

\* variant: the slice starts one character early
SliceFromBefore(s, n) == SubSeq(s, n, Len(s))

\* String.prototype.slice(n), n >= 0
Slice(s, n) == SubSeq(s, n + 1, Len(s))

\* String.prototype.includes
Includes(s, p) == \E i \in 0..Len(s) : i + Len(p) <= Len(s) /\ SubSeq(s, i + 1, i + Len(p)) = p

\* variant: only an absent value is falsy (a test against null)
TruthyNotNull(o) == o # None

\* truthiness of a "string | null | undefined" value: absent and '' are falsy
Truthy(o) == o # None /\ o[1] # <<>>

\* ------------------------------------------------------------------------
\* Error taxonomy (errors.ts)
\* ------------------------------------------------------------------------

AuthErrorCode == {"UNAUTHORIZED", "INVALID_TOKEN", "TOKEN_EXPIRED", "FORBIDDEN"}

\* variant: the default status is 403 for every code
AuthErrorDefaultForbidden(code, message, statusCode) ==
  [name |-> "AuthError", code |-> code, message |-> message,
   statusCode |-> IF statusCode # None THEN statusCode[1] ELSE 403]

\* new AuthError(code, message, statusCode?) ; statusCode is None or Some(401|403);
\* a message is the sequence of the parts of its template string
\* variant: the status is always derived from the code
AuthErrorIgnoresOverride(code, message, statusCode) ==
  [name |-> "AuthError", code |-> code, message |-> message,
   statusCode |-> IF code = "FORBIDDEN" THEN 403 ELSE 401]

AuthError(code, message, statusCode) ==
  [name |-> "AuthError", code |-> code, message |-> message,
   statusCode |-> IF statusCode # None THEN statusCode[1]
                  ELSE IF code = "FORBIDDEN" THEN 403 ELSE 401]

\* an exception that is not an AuthError (new Error(message))
PlainError(message) ==
  [name |-> "Error", code |-> "", message |-> message, statusCode |-> 0]

isAuthError(error) == error.name = "AuthError"

toResponse(error) == [error |-> [code |-> error.code, message |-> error.message]]

\* ------------------------------------------------------------------------
\* Credentials carried by a request
\* ------------------------------------------------------------------------

BearerPrefix == <<"B", "e", "a", "r", "e", "r", " ">>

TokAlice == <<"t", "A">>

TokBob == <<"t", "B">>

TokOld == <<"t", "X">>

TokJunk == <<"?">>

\* values of the Authorization header (undefined when the header is not sent)
AuthorizationHeaders ==
  {None,
   Some(BearerPrefix),
   Some(BearerPrefix \o TokAlice),
   Some(BearerPrefix \o TokOld),
   Some(BearerPrefix \o TokJunk),
   Some(<<"B", "a", "s", "i", "c", " ">> \o TokAlice),
   Some(<<"B", "e", "a", "r", "e", "r">> \o TokAlice),
   Some(<<"b", "e", "a", "r", "e", "r", " ">> \o TokAlice)}

\* request.cookies: undefined when @fastify/cookie is not registered,
\* otherwise a map from cookie name to value
CookieJars ==
  {None,
   Some([c \in {"other_cookie"} |-> <<"v">>]),
   Some([c \in {"__session"} |-> <<>>]),
   Some([c \in {"__session"} |-> TokBob]),
   Some([c \in {"__session", "other_cookie"} |-> IF c = "__session" THEN TokJunk ELSE <<"v">>])}

\* variant: the first cookie of the jar is taken, whatever its name
sessionCookieAnyName(cookies) ==
  IF cookies = None THEN None
  ELSE IF DOMAIN cookies[1] # {} THEN Some(cookies[1][CHOOSE c \in DOMAIN cookies[1] : TRUE])
  ELSE None

\* req.cookies?.['__session']
sessionCookie(cookies) ==
  IF cookies = None THEN None
  ELSE IF "__session" \in DOMAIN cookies[1] THEN Some(cookies[1]["__session"])
  ELSE None

\* variant: the session cookie is looked at before the Authorization header
extractTokenCookieFirst(request) ==
  IF Truthy(sessionCookie(request.cookies))
  THEN sessionCookie(request.cookies)
  ELSE IF request.authorization # None /\ StartsWith(request.authorization[1], BearerPrefix)
  THEN Some(Slice(request.authorization[1], 7))
  ELSE None

\* variant: an empty bearer credential is passed over in favour of the
\* session cookie
extractTokenSkipsEmptyBearer(request) ==
  IF /\ request.authorization # None
     /\ StartsWith(request.authorization[1], BearerPrefix)
     /\ Slice(request.authorization[1], 7) # <<>>
  THEN Some(Slice(request.authorization[1], 7))
  ELSE IF Truthy(sessionCookie(request.cookies))
  THEN sessionCookie(request.cookies)
  ELSE None

\* extractToken(request): string | null
extractToken(request) ==
  IF request.authorization # None /\ StartsWith(request.authorization[1], BearerPrefix)
  THEN Some(Slice(request.authorization[1], 7))
  ELSE IF Truthy(sessionCookie(request.cookies))
  THEN sessionCookie(request.cookies)
  ELSE None

\* ------------------------------------------------------------------------
\* Claims of the provider (JwtPayload) and the Identity Record (UserContext)
\* ------------------------------------------------------------------------

Undef == [t |-> "undefined", v |-> ""]

JsNull == [t |-> "null", v |-> ""]

Str(s) == [t |-> "string", v |-> s]

Num(n) == [t |-> "number", v |-> n]

\* a metadata object: the keys the permission helpers read, each a list or absent
MetaUndef == [t |-> "undefined", roles |-> None, scopes |-> None]

MetaObj(roles, scopes) == [t |-> "object", roles |-> roles, scopes |-> scopes]

PayloadAlice ==
  [sub |-> Str("user_123"), sid |-> Str("sess_456"),
   email |-> Str("test@example.com"), first_name |-> Str("Test"),
   last_name |-> Str("User"), image_url |-> Undef,
   org_id |-> Str("org_1"), org_role |-> Str("admin"), org_slug |-> Str("acme"),
   public_metadata |-> MetaObj(Some(<<"admin">>), Some(<<"read">>)),
   private_metadata |-> MetaUndef]

PayloadBob ==
  [sub |-> Str("user_bob"), sid |-> Undef,
   email |-> Num("42"), first_name |-> Undef,
   last_name |-> Undef, image_url |-> Str("https://img"),
   org_id |-> Undef, org_role |-> Undef, org_slug |-> Undef,
   public_metadata |-> MetaUndef,
   private_metadata |-> MetaObj(None, None)]

\* a claim set whose subject is the empty string and that names a role in
\* an organization without naming the organization
PayloadNoSubject ==
  [sub |-> Str(""), sid |-> Undef,
   email |-> JsNull, first_name |-> Undef,
   last_name |-> Undef, image_url |-> Undef,
   org_id |-> Undef, org_role |-> Str("member"), org_slug |-> Undef,
   public_metadata |-> MetaUndef,
   private_metadata |-> MetaUndef]

\* variant: x ?? null
StringOrNullKeepsNonStrings(x) == IF x.t = "undefined" THEN JsNull ELSE x

\* typeof x === 'string' ? x : null
StringOrNull(x) == IF x.t = "string" THEN x ELSE JsNull

\* x ?? d
Coalesce(x, d) == IF x.t \in {"undefined", "null"} THEN d ELSE x

\* variant: the organization attributes are taken only from a claim set
\* that names the organization
mapClerkPayloadOrgTogether(payload) ==
  [userId |-> payload.sub,
   sessionId |-> Coalesce(payload.sid, Str("")),
   email |-> StringOrNull(payload.email),
   firstName |-> StringOrNull(payload.first_name),
   lastName |-> StringOrNull(payload.last_name),
   imageUrl |-> StringOrNull(payload.image_url),
   orgId |-> StringOrNull(payload.org_id),
   orgRole |-> IF payload.org_id.t = "string" THEN StringOrNull(payload.org_role) ELSE JsNull,
   orgSlug |-> IF payload.org_id.t = "string" THEN StringOrNull(payload.org_slug) ELSE JsNull,
   publicMetadata |-> Coalesce(payload.public_metadata, MetaObj(None, None)),
   privateMetadata |-> Coalesce(payload.private_metadata, MetaObj(None, None)),
   raw |-> payload]

\* variant: a claim set without a subject gets the session as its subject
mapClerkPayloadSubjectFallback(payload) ==
  [userId |-> IF payload.sub = Str("") THEN Coalesce(payload.sid, Str("anonymous")) ELSE payload.sub,
   sessionId |-> Coalesce(payload.sid, Str("")),
   email |-> StringOrNull(payload.email),
   firstName |-> StringOrNull(payload.first_name),
   lastName |-> StringOrNull(payload.last_name),
   imageUrl |-> StringOrNull(payload.image_url),
   orgId |-> StringOrNull(payload.org_id),
   orgRole |-> StringOrNull(payload.org_role),
   orgSlug |-> StringOrNull(payload.org_slug),
   publicMetadata |-> Coalesce(payload.public_metadata, MetaObj(None, None)),
   privateMetadata |-> Coalesce(payload.private_metadata, MetaObj(None, None)),
   raw |-> payload]

mapClerkPayloadToUserContext(payload) ==
  [userId |-> payload.sub,
   sessionId |-> Coalesce(payload.sid, Str("")),
   email |-> StringOrNull(payload.email),
   firstName |-> StringOrNull(payload.first_name),
   lastName |-> StringOrNull(payload.last_name),
   imageUrl |-> StringOrNull(payload.image_url),
   orgId |-> StringOrNull(payload.org_id),
   orgRole |-> StringOrNull(payload.org_role),
   orgSlug |-> StringOrNull(payload.org_slug),
   publicMetadata |-> Coalesce(payload.public_metadata, MetaObj(None, None)),
   privateMetadata |-> Coalesce(payload.private_metadata, MetaObj(None, None)),
   raw |-> payload]

\* ------------------------------------------------------------------------
\* The verification oracle (clerkVerifyToken of @clerk/backend)
\* ------------------------------------------------------------------------

MsgTokenExpired == <<"T", "o", "k", "e", "n", " ", "e", "x", "p", "i", "r", "e", "d">>

MsgInvalidToken == <<"I", "n", "v", "a", "l", "i", "d", " ", "t", "o", "k", "e", "n">>

MsgNullPayload == <<"n", "u", "l", "l", " ", "s", "u", "b">>

Expired == <<"e", "x", "p", "i", "r", "e", "d">>

\* the oracle resolves with a claim set (None: a null claim set)
Resolve(payload) ==
  [settle |-> "resolve", payload |-> payload, reason |-> "", isError |-> FALSE, message |-> <<>>]

\* the oracle rejects: reason is why, isError whether the rejection value is
\* an Error, message the Error's message
Reject(reason, isError, message) ==
  [settle |-> "reject", payload |-> None, reason |-> reason, isError |-> isError, message |-> message]

OracleRejections ==
  {Reject("token-expired", TRUE, MsgTokenExpired),
   Reject("token-invalid", TRUE, MsgInvalidToken),
   Reject("token-invalid", FALSE, <<>>)}

\* what the oracle may answer to clerkVerifyToken(token, verifyOptions)
clerkVerifyToken(token, verifyOptions) ==
  IF token = TokAlice THEN {Resolve(Some(PayloadAlice))}
  ELSE IF token = TokBob
  THEN {Resolve(Some(PayloadBob)), Resolve(Some(PayloadNoSubject)), Resolve(None)}
  ELSE IF token = TokOld THEN {Reject("token-expired", TRUE, MsgTokenExpired)}
  ELSE {o \in OracleRejections : o.reason = "token-invalid"}

\* the value caught by the catch block of verifyToken: the oracle's rejection,
\* or the TypeError of mapping a null claim set
caughtInVerify(o) ==
  IF o.settle = "resolve" THEN [isError |-> TRUE, message |-> MsgNullPayload]
  ELSE [isError |-> o.isError, message |-> o.message]

\* variant: the message is compared with 'expired' instead of searched for it
classifyFailureByEquality(caught) ==
  IF caught.isError /\ caught.message = Expired
  THEN AuthError("TOKEN_EXPIRED", <<"Token has expired">>, None)
  ELSE AuthError("INVALID_TOKEN", <<"Invalid or malformed token">>, None)

\* the AuthError verifyToken throws for a caught value
classifyFailure(caught) ==
  IF caught.isError /\ Includes(caught.message, Expired)
  THEN AuthError("TOKEN_EXPIRED", <<"Token has expired">>, None)
  ELSE AuthError("INVALID_TOKEN", <<"Invalid or malformed token">>, None)

\* variant: the claim set is mapped after the try block, so that the
\* TypeError of mapping a null claim set leaves verifyToken as it is
verifyTokenMapsOutsideTry(o) ==
  IF o.settle = "resolve" /\ o.payload # None
  THEN [user |-> Some(mapClerkPayloadToUserContext(o.payload[1])), error |-> None]
  ELSE IF o.settle = "resolve"
  THEN [user |-> None, error |-> Some(PlainError(MsgNullPayload))]
  ELSE [user |-> None, error |-> Some(classifyFailure(caughtInVerify(o)))]

\* verifyToken(token, options), once the oracle has answered o:
\* user is the Identity Record it returns, error the AuthError it throws
verifyToken(o) ==
  IF o.settle = "resolve" /\ o.payload # None
  THEN [user |-> Some(mapClerkPayloadToUserContext(o.payload[1])), error |-> None]
  ELSE [user |-> None, error |-> Some(classifyFailure(caughtInVerify(o)))]

\* ------------------------------------------------------------------------
\* Permission helpers (permissions.ts)
\* ------------------------------------------------------------------------

\* list?.includes(x), for a list that may be absent: None when the list is absent
ListIncludes(list, x) ==
  IF list = None THEN None ELSE Some(\E i \in 1..Len(list[1]) : list[1][i] = x)

\* Array.prototype.join of a list of strings, as the parts of the result
RECURSIVE Join(_, _)
Join(list, sep) ==
  IF Len(list) = 0 THEN <<>>
  ELSE IF Len(list) = 1 THEN <<list[1]>>
  ELSE <<list[1], sep>> \o Join(Tail(list), sep)

\* variant: the predicate of requireScopes asks for one of the scopes
checkAnyScope(guard, user) ==
  CASE guard.check = "role" ->
         LET found == ListIncludes(user.publicMetadata.roles, guard.arg[1])
         IN  IF found = None THEN FALSE ELSE found[1]
    [] guard.check = "scopes" ->
         \E i \in 1..Len(guard.arg) :
           LET found == ListIncludes(user.publicMetadata.scopes, guard.arg[i])
           IN  Truthy(found) /\ found[1]
    [] guard.check = "orgMembership" -> user.orgId.t # "null"
    [] guard.check = "orgRole" -> user.orgRole = Str(guard.arg[1])
    [] guard.check = "always" -> TRUE
    [] OTHER -> FALSE

\* variant: a record without a 'roles' list has every role
checkAbsentRolesGrant(guard, user) ==
  CASE guard.check = "role" ->
         LET found == ListIncludes(user.publicMetadata.roles, guard.arg[1])
         IN  IF found = None THEN TRUE ELSE found[1]
    [] guard.check = "scopes" ->
         \A i \in 1..Len(guard.arg) :
           LET found == ListIncludes(user.publicMetadata.scopes, guard.arg[i])
           IN  found # None /\ found[1]
    [] guard.check = "orgMembership" -> user.orgId.t # "null"
    [] guard.check = "orgRole" -> user.orgRole = Str(guard.arg[1])
    [] guard.check = "always" -> TRUE
    [] OTHER -> FALSE

\* variant: any role in the organization satisfies requireOrgRole
checkAnyOrgRole(guard, user) ==
  CASE guard.check = "role" ->
         LET found == ListIncludes(user.publicMetadata.roles, guard.arg[1])
         IN  IF found = None THEN FALSE ELSE found[1]
    [] guard.check = "scopes" ->
         \A i \in 1..Len(guard.arg) :
           LET found == ListIncludes(user.publicMetadata.scopes, guard.arg[i])
           IN  found # None /\ found[1]
    [] guard.check = "orgMembership" -> user.orgId.t # "null"
    [] guard.check = "orgRole" -> user.orgRole.t # "null"
    [] guard.check = "always" -> TRUE
    [] OTHER -> FALSE

\* variant: membership of an organization also asks for a role in it
checkMembershipNeedsRole(guard, user) ==
  CASE guard.check = "role" ->
         LET found == ListIncludes(user.publicMetadata.roles, guard.arg[1])
         IN  IF found = None THEN FALSE ELSE found[1]
    [] guard.check = "scopes" ->
         \A i \in 1..Len(guard.arg) :
           LET found == ListIncludes(user.publicMetadata.scopes, guard.arg[i])
           IN  found # None /\ found[1]
    [] guard.check = "orgMembership" -> user.orgId.t # "null" /\ user.orgRole.t # "null"
    [] guard.check = "orgRole" -> user.orgRole = Str(guard.arg[1])
    [] guard.check = "always" -> TRUE
    [] OTHER -> FALSE

\* the predicate of a guard, applied to an Identity Record:
\* "role" is roles?.includes(role) ?? false, "scopes" is
\* scopes.every((s) => userScopes?.includes(s)), "orgMembership" is
\* user.orgId !== null, "orgRole" is user.orgRole === role, "always" is
\* () => true and "never" is () => false
check(guard, user) ==
  CASE guard.check = "role" ->
         LET found == ListIncludes(user.publicMetadata.roles, guard.arg[1])
         IN  IF found = None THEN FALSE ELSE found[1]
    [] guard.check = "scopes" ->
         \A i \in 1..Len(guard.arg) :
           LET found == ListIncludes(user.publicMetadata.scopes, guard.arg[i])
           IN  found # None /\ found[1]
    [] guard.check = "orgMembership" -> user.orgId.t # "null"
    [] guard.check = "orgRole" -> user.orgRole = Str(guard.arg[1])
    [] guard.check = "always" -> TRUE
    [] OTHER -> FALSE

\* variant: the guard evaluates the predicate before it looks for a record
\* and reports the absence of a record with the guard's own message
requirePermissionChecksFirst(guard, slot) ==
  IF slot = None THEN Some(AuthError("FORBIDDEN", guard.errorMessage, None))
  ELSE IF ~check(guard, slot[1]) THEN Some(AuthError("FORBIDDEN", guard.errorMessage, None))
  ELSE None

\* variant: the guard's FORBIDDEN is constructed with the status 401
requirePermissionForbiddenAs401(guard, slot) ==
  IF slot = None THEN Some(AuthError("UNAUTHORIZED", <<"Authentication required">>, None))
  ELSE IF ~check(guard, slot[1]) THEN Some(AuthError("FORBIDDEN", guard.errorMessage, Some(401)))
  ELSE None

\* the guard made by requirePermission(check, errorMessage), run on a
\* request whose identity slot is slot: None, or Some(the AuthError it throws)
requirePermission(guard, slot) ==
  IF slot = None THEN Some(AuthError("UNAUTHORIZED", <<"Authentication required">>, None))
  ELSE IF ~check(guard, slot[1]) THEN Some(AuthError("FORBIDDEN", guard.errorMessage, None))
  ELSE None

\* the records the guard hands to its predicate, in order
predicateCalls(guard, slot) == IF slot = None THEN <<>> ELSE <<slot[1]>>

\* requirePermission(check, errorMessage = 'Insufficient permissions'):
\* arg is what the predicate closes over, errorMessage may be omitted
requirePermissionGuard(predicate, arg, errorMessage) ==
  [check |-> predicate, arg |-> arg,
   errorMessage |-> IF errorMessage = None THEN <<"Insufficient permissions">>
                    ELSE errorMessage[1]]

requireRole(role) ==
  requirePermissionGuard("role", <<role>>, Some(<<"Role '", role, "' required">>))

requireScopes(scopes) ==
  requirePermissionGuard("scopes", scopes, Some(<<"Scopes required: ">> \o Join(scopes, ", ")))

requireOrgMembership ==
  requirePermissionGuard("orgMembership", <<>>, Some(<<"Organization membership required">>))

requireOrgRole(role) ==
  requirePermissionGuard("orgRole", <<role>>,
                         Some(<<"Organization role '", role, "' required">>))

\* variant: request.user is returned as it is, also when it is null
getUserReturnsSlot(slot) == [user |-> slot, error |-> None]

\* getUser(request): the record it returns, or the AuthError it throws
getUser(slot) ==
  IF slot = None
  THEN [user |-> None, error |-> Some(AuthError("UNAUTHORIZED", <<"Authentication required">>, None))]
  ELSE [user |-> slot, error |-> None]

\* ------------------------------------------------------------------------
\* Test double (testing/index.ts)
\* ------------------------------------------------------------------------

\* {} as JwtPayload
EmptyPayload ==
  [sub |-> Undef, sid |-> Undef, email |-> Undef, first_name |-> Undef,
   last_name |-> Undef, image_url |-> Undef,
   org_id |-> Undef, org_role |-> Undef, org_slug |-> Undef,
   public_metadata |-> MetaUndef, private_metadata |-> MetaUndef]

\* { ...f, ...g }
Spread(f, g) ==
  [k \in DOMAIN f \cup DOMAIN g |-> IF k \in DOMAIN g THEN g[k] ELSE f[k]]

MockDefaults ==
  [userId |-> Str("user_test_123"), sessionId |-> Str("sess_test_123"),
   email |-> Str("test@example.com"), firstName |-> Str("Test"),
   lastName |-> Str("User"), imageUrl |-> JsNull,
   orgId |-> JsNull, orgRole |-> JsNull, orgSlug |-> JsNull,
   publicMetadata |-> MetaObj(None, None), privateMetadata |-> MetaObj(None, None),
   raw |-> EmptyPayload]

\* createMockUser(overrides): overrides is a record over some of the attributes
createMockUser(overrides) == Spread(MockDefaults, overrides)

\* ------------------------------------------------------------------------
\* Routes of the application and plugin options
\* ------------------------------------------------------------------------

Route(public, preHandler, handler) ==
  [config |-> Some([public |-> public]), preHandler |-> preHandler, handler |-> handler]

\* handler kinds: "plain" reads request.user?.userId, "getUser" calls getUser,
\* "throwsError" fails with an Error, "throwsAuthError" throws an AuthError
\* built with a status override
Routes ==
  {Route(Some(TRUE), <<>>, "plain"),
   Route(Some(TRUE), <<>>, "getUser"),
   Route(Some(TRUE), <<requireOrgMembership>>, "plain"),
   Route(None, <<>>, "plain"),
   Route(None, <<>>, "getUser"),
   Route(None, <<requireRole("admin")>>, "getUser"),
   Route(None, <<requireOrgMembership>>, "plain"),
   Route(None, <<requireOrgRole("admin")>>, "plain"),
   Route(None, <<requireScopes(<<"read">>)>>, "plain"),
   Route(Some(FALSE), <<>>, "plain"),
   Route(None, <<>>, "throwsError"),
   Route(None, <<>>, "throwsAuthError")}

\* the options handed to app.register(auth, options)
AuthPluginOptions ==
  [secretKey : {None, Some(""), Some("sk_test_123")},
   authorizedParties : {None},
   jwtKey : {None},
   respectPublicRoutes : {None, Some(TRUE), Some(FALSE)},
   logFailures : {None, Some(TRUE), Some(FALSE)},
   onAuthFailure : {None, Some("returns"), Some("throws")}]

\* process.env['CLERK_SECRET_KEY']
EnvSecrets == {None, Some("sk_test_from_env")}

Requests == {"r1", "r2"}

\* ------------------------------------------------------------------------
\* State
\* ------------------------------------------------------------------------

VARIABLES
  server,        \* "starting", "ready" (plugin registered) or "failed"
  options,       \* the AuthPluginOptions given at registration
  env,           \* process.env['CLERK_SECRET_KEY']
  verifyOptions, \* the TokenVerificationOptions captured by the pre-handler
  installed,     \* what registration installed on the Fastify instance
  startupError,  \* the error registration failed with
  admitted,      \* the requests the host dispatches
  served,        \* number of requests received so far
  pc,            \* per request: the stage of its lifecycle
  request,       \* per request: headers, cookies and the matched route
  user,          \* per request: request.user
  todo,          \* per request: route-level preHandler guards still to run
  thrown,        \* per request: the error propagating out of a hook or handler
  raised,        \* per request: the errors constructed by the library and the handler
  escaped,       \* per request: the error authErrorHandler re-threw to the host
  reply,         \* per request: the responses sent
  events,        \* per request: what ran, in order
  observed,      \* per request: the calls of options.onAuthFailure
  oracleCalls,   \* per request: the calls of clerkVerifyToken
  answers,       \* per request: what the oracle answered
  unit,          \* the call a unit test makes: function, argument and outcome
  cancelled      \* per request: the client went away or the request timed out

vars ==
  <<server, options, env, verifyOptions, installed, startupError, admitted, served,
    pc, request, user, todo, thrown, raised, escaped, reply, events, observed,
    oracleCalls, answers, unit, cancelled>>

config == <<options, env, admitted>>

\* the state of the server and of its requests, which no unit test touches
serving ==
  <<server, options, env, verifyOptions, installed, startupError, admitted, served,
    pc, request, user, todo, thrown, raised, escaped, reply, events, observed,
    oracleCalls, answers, cancelled>>

registration == <<server, verifyOptions, installed, startupError>>

NoRequest == [authorization |-> None, cookies |-> None, route |-> Route(None, <<>>, "plain")]

\* no unit test is running
NoCall == [fn |-> "", arg |-> None, out |-> None]

Init ==
  /\ server = "starting"
  /\ options \in AuthPluginOptions
  /\ env \in EnvSecrets
  /\ verifyOptions = None
  /\ installed = {}
  /\ startupError = None
  /\ admitted = {"r1"}
  /\ served = 0
  /\ pc = [r \in Requests |-> "idle"]
  /\ request = [r \in Requests |-> NoRequest]
  /\ user = [r \in Requests |-> None]
  /\ todo = [r \in Requests |-> <<>>]
  /\ thrown = [r \in Requests |-> None]
  /\ raised = [r \in Requests |-> <<>>]
  /\ escaped = [r \in Requests |-> None]
  /\ reply = [r \in Requests |-> <<>>]
  /\ events = [r \in Requests |-> <<>>]
  /\ observed = [r \in Requests |-> <<>>]
  /\ oracleCalls = [r \in Requests |-> <<>>]
  /\ answers = [r \in Requests |-> <<>>]
  /\ unit = NoCall
  /\ cancelled = [r \in Requests |-> FALSE]

\* ------------------------------------------------------------------------
\* Registration (authPluginImpl)
\* ------------------------------------------------------------------------

\* options.secretKey ?? process.env['CLERK_SECRET_KEY']
resolveSecretKey(opts, e) == IF opts.secretKey # None THEN opts.secretKey ELSE e

MissingSecret == PlainError(<<"CLERK_SECRET_KEY is required">>)

authPluginImpl ==
  /\ server = "starting"
  /\ LET secretKey == resolveSecretKey(options, env)
     IN  IF secretKey = None \/ secretKey[1] = ""
         THEN /\ server' = "failed"
              /\ startupError' = Some(MissingSecret)
              /\ UNCHANGED <<verifyOptions, installed>>
         ELSE /\ server' = "ready"
              /\ verifyOptions' = Some([secretKey |-> secretKey[1],
                                        authorizedParties |-> options.authorizedParties,
                                        jwtKey |-> options.jwtKey])
              /\ installed' = {"decorateRequest", "preHandler", "errorHandler"}
              /\ UNCHANGED startupError
  /\ UNCHANGED <<config, unit, cancelled, served, pc, request, user, todo, thrown, raised, escaped,
                 reply, events, observed, oracleCalls, answers>>

\* ------------------------------------------------------------------------
\* A request enters the server
\* ------------------------------------------------------------------------

\* the host creates the request object (request.user is the decorated
\* default, null) and starts the preHandler hooks of the matched route
ReceiveFrom(r, headers, jars, routes) ==
  /\ server = "ready"
  /\ r \in admitted
  /\ pc[r] = "idle"
  /\ served < MaxServed
  /\ served' = served + 1
  /\ \E h \in headers, c \in jars, rt \in routes :
       /\ request' = [request EXCEPT ![r] = [authorization |-> h, cookies |-> c, route |-> rt]]
       /\ todo' = [todo EXCEPT ![r] = rt.preHandler]
  /\ pc' = [pc EXCEPT ![r] = "preHandler"]
  /\ user' = [user EXCEPT ![r] = None]
  /\ UNCHANGED <<config, unit, cancelled, registration, thrown, raised, escaped, reply, events,
                 observed, oracleCalls, answers>>

Receive(r) == ReceiveFrom(r, AuthorizationHeaders, CookieJars, Routes)

\* the request is over: the host discards the request object and all that
\* was attached to it
Complete(r) ==
  /\ pc[r] = "done"
  /\ pc' = [pc EXCEPT ![r] = "idle"]
  /\ request' = [request EXCEPT ![r] = NoRequest]
  /\ user' = [user EXCEPT ![r] = None]
  /\ todo' = [todo EXCEPT ![r] = <<>>]
  /\ thrown' = [thrown EXCEPT ![r] = None]
  /\ raised' = [raised EXCEPT ![r] = <<>>]
  /\ escaped' = [escaped EXCEPT ![r] = None]
  /\ reply' = [reply EXCEPT ![r] = <<>>]
  /\ events' = [events EXCEPT ![r] = <<>>]
  /\ observed' = [observed EXCEPT ![r] = <<>>]
  /\ oracleCalls' = [oracleCalls EXCEPT ![r] = <<>>]
  /\ answers' = [answers EXCEPT ![r] = <<>>]
  /\ cancelled' = [cancelled EXCEPT ![r] = FALSE]
  /\ UNCHANGED <<config, unit, registration, served>>

\* ------------------------------------------------------------------------
\* The Gate (createAuthPreHandler, logAuthFailure)
\* ------------------------------------------------------------------------

ObserverError == PlainError(<<"onAuthFailure failed">>)

\* variant: the observer is called inside the logFailures block
logAuthFailureObserverInsideLogBlock(error, r, opts) ==
  LET on == opts.logFailures # Some(FALSE) /\ opts.onAuthFailure # None
  IN  [events |-> (IF opts.logFailures # Some(FALSE) THEN <<"log.warn">> ELSE <<>>)
                  \o (IF on THEN <<"onAuthFailure">> ELSE <<>>),
       calls |-> IF on THEN <<[error |-> error, request |-> r]>> ELSE <<>>,
       raised |-> IF on /\ opts.onAuthFailure = Some("throws") THEN Some(ObserverError) ELSE None]

\* variant: the observer is called before the log entry is written
logAuthFailureObserverFirst(error, r, opts) ==
  [events |-> (IF opts.onAuthFailure # None THEN <<"onAuthFailure">> ELSE <<>>)
              \o (IF opts.logFailures # Some(FALSE) /\ opts.onAuthFailure # Some("throws")
                  THEN <<"log.warn">> ELSE <<>>),
   calls |-> IF opts.onAuthFailure # None THEN <<[error |-> error, request |-> r]>> ELSE <<>>,
   raised |-> IF opts.onAuthFailure = Some("throws") THEN Some(ObserverError) ELSE None]

\* logAuthFailure(error, request, options): the log entry and observer call
\* it makes, and the exception it ends with when the observer throws
logAuthFailure(error, r, opts) ==
  [events |-> (IF opts.logFailures # Some(FALSE) THEN <<"log.warn">> ELSE <<>>)
              \o (IF opts.onAuthFailure # None THEN <<"onAuthFailure">> ELSE <<>>),
   calls |-> IF opts.onAuthFailure # None THEN <<[error |-> error, request |-> r]>> ELSE <<>>,
   raised |-> IF opts.onAuthFailure = Some("throws") THEN Some(ObserverError) ELSE None]

\* variant: public routes are skipped only when respectPublicRoutes is true
skipsAuthOnlyWhenTrue(opts, routeConfig) ==
  /\ opts.respectPublicRoutes = Some(TRUE)
  /\ routeConfig # None
  /\ routeConfig[1].public = Some(TRUE)

\* variant: the public marker is honoured whatever respectPublicRoutes says
skipsAuthIgnoresOption(opts, routeConfig) ==
  /\ routeConfig # None
  /\ routeConfig[1].public = Some(TRUE)

\* respectPublicRoutes !== false && routeConfig?.public
skipsAuth(opts, routeConfig) ==
  /\ opts.respectPublicRoutes # Some(FALSE)
  /\ routeConfig # None
  /\ routeConfig[1].public = Some(TRUE)

\* the stage that follows the Gate's pre-handler
afterGate(r) == IF request[r].route.preHandler # <<>> THEN "routeHooks" ELSE "handler"

\* variant: a configured observer that returns is taken to have handled the
\* failure, and the request goes on
GateDefersToObserver(r, error, ran) ==
  LET l == logAuthFailure(error, r, options)
      handled == options.onAuthFailure = Some("returns")
  IN  /\ events' = [events EXCEPT ![r] = @ \o ran \o l.events]
      /\ observed' = [observed EXCEPT ![r] = @ \o l.calls]
      /\ raised' = [raised EXCEPT ![r] = Append(@, error)]
      /\ thrown' = [thrown EXCEPT ![r] =
                      IF handled THEN None ELSE IF l.raised # None THEN l.raised ELSE Some(error)]
      /\ pc' = [pc EXCEPT ![r] = IF handled THEN afterGate(r) ELSE "errorHandler"]

\* variant: the failure is reported but not thrown, the request goes on
GateReportsOnly(r, error, ran) ==
  LET l == logAuthFailure(error, r, options)
  IN  /\ events' = [events EXCEPT ![r] = @ \o ran \o l.events]
      /\ observed' = [observed EXCEPT ![r] = @ \o l.calls]
      /\ raised' = [raised EXCEPT ![r] = Append(@, error)]
      /\ thrown' = thrown
      /\ pc' = [pc EXCEPT ![r] = afterGate(r)]

\* the Gate fails the request with error: report it when it is an AuthError,
\* then throw
GateThrows(r, error, ran) ==
  LET l == IF isAuthError(error) THEN logAuthFailure(error, r, options)
           ELSE [events |-> <<>>, calls |-> <<>>, raised |-> None]
  IN  /\ events' = [events EXCEPT ![r] = @ \o ran \o l.events]
      /\ observed' = [observed EXCEPT ![r] = @ \o l.calls]
      /\ raised' = [raised EXCEPT ![r] = Append(@, error)]
      /\ thrown' = [thrown EXCEPT ![r] = IF l.raised # None THEN l.raised ELSE Some(error)]
      /\ pc' = [pc EXCEPT ![r] = "errorHandler"]

\* variant: on a public route a credential the oracle accepts is still
\* turned into a record, authentication being optional there
BypassAttachesWhenAccepted(r) ==
  /\ pc' = [pc EXCEPT ![r] = afterGate(r)]
  /\ user' = [user EXCEPT ![r] =
                IF extractToken(request[r]) = Some(TokAlice)
                THEN Some(mapClerkPayloadToUserContext(PayloadAlice)) ELSE None]
  /\ UNCHANGED <<thrown, raised, events, observed, oracleCalls>>

\* the route is public and public routes are respected: return at once
Bypass(r) ==
  /\ pc' = [pc EXCEPT ![r] = afterGate(r)]
  /\ UNCHANGED <<user, thrown, raised, events, observed, oracleCalls>>

\* no usable credential: throw UNAUTHORIZED
RejectMissing(r) ==
  /\ GateThrows(r, AuthError("UNAUTHORIZED", <<"Authentication required">>, None), <<"extractToken">>)
  /\ UNCHANGED <<user, oracleCalls>>

\* variant: the claims of the credential are attached before it is verified
StartVerifyAttachesFirst(r, token) ==
  /\ oracleCalls' = [oracleCalls EXCEPT ![r] = Append(@, [token |-> token, options |-> verifyOptions[1]])]
  /\ events' = [events EXCEPT ![r] = @ \o <<"extractToken", "clerkVerifyToken">>]
  /\ pc' = [pc EXCEPT ![r] = "verifying"]
  /\ user' = [user EXCEPT ![r] = Some(mapClerkPayloadToUserContext(PayloadBob))]
  /\ UNCHANGED <<thrown, raised, observed>>

\* variant: the oracle is handed the secret alone
StartVerifySecretOnly(r, token) ==
  /\ oracleCalls' = [oracleCalls EXCEPT ![r] =
       Append(@, [token |-> token,
                  options |-> [secretKey |-> verifyOptions[1].secretKey,
                               authorizedParties |-> None, jwtKey |-> None]])]
  /\ events' = [events EXCEPT ![r] = @ \o <<"extractToken", "clerkVerifyToken">>]
  /\ pc' = [pc EXCEPT ![r] = "verifying"]
  /\ UNCHANGED <<user, thrown, raised, observed>>

\* verifyToken(token, verifyOptions) is called and awaits the oracle
StartVerify(r, token) ==
  /\ oracleCalls' = [oracleCalls EXCEPT ![r] = Append(@, [token |-> token, options |-> verifyOptions[1]])]
  /\ events' = [events EXCEPT ![r] = @ \o <<"extractToken", "clerkVerifyToken">>]
  /\ pc' = [pc EXCEPT ![r] = "verifying"]
  /\ UNCHANGED <<user, thrown, raised, observed>>

\* variant: a request without credential goes on as an anonymous request
\* and is left to the guards of its route
PreHandlerAnonymousPassThrough(r) ==
  /\ pc[r] = "preHandler"
  /\ IF skipsAuth(options, request[r].route.config)
     THEN Bypass(r)
     ELSE LET token == extractToken(request[r])
          IN  IF ~Truthy(token)
              THEN IF request[r].route.preHandler # <<>> THEN Bypass(r) ELSE RejectMissing(r)
              ELSE StartVerify(r, token[1])
  /\ UNCHANGED <<config, unit, cancelled, registration, served, request, todo, escaped, reply, answers>>

\* the pre-handler up to its await of verifyToken
PreHandler(r) ==
  /\ pc[r] = "preHandler"
  /\ IF skipsAuth(options, request[r].route.config)
     THEN Bypass(r)
     ELSE LET token == extractToken(request[r])
          IN  IF ~Truthy(token) THEN RejectMissing(r) ELSE StartVerify(r, token[1])
  /\ UNCHANGED <<config, unit, cancelled, registration, served, request, todo, escaped, reply, answers>>

\* variant: after a first failure the oracle is asked once more
VerifiedRetriesOnce(r) ==
  /\ pc[r] = "verifying"
  /\ LET c == oracleCalls[r][Len(oracleCalls[r])]
     IN  \E o \in clerkVerifyToken(c.token, c.options) :
           LET res == verifyToken(o)
           IN  /\ answers' = [answers EXCEPT ![r] = Append(@, o)]
               /\ IF res.error = None
                  THEN /\ user' = [user EXCEPT ![r] = res.user]
                       /\ events' = [events EXCEPT ![r] = Append(@, "attach")]
                       /\ pc' = [pc EXCEPT ![r] = afterGate(r)]
                       /\ UNCHANGED <<thrown, raised, observed, oracleCalls>>
                  ELSE IF Len(oracleCalls[r]) = 1
                  THEN /\ oracleCalls' = [oracleCalls EXCEPT ![r] = Append(@, c)]
                       /\ events' = [events EXCEPT ![r] = Append(@, "clerkVerifyToken")]
                       /\ UNCHANGED <<pc, user, thrown, raised, observed>>
                  ELSE /\ GateThrows(r, res.error[1], <<>>)
                       /\ UNCHANGED <<user, oracleCalls>>
  /\ UNCHANGED <<config, unit, cancelled, registration, served, request, todo, escaped, reply>>

\* variant: the record is kept in a slot that the requests share, so that
\* every request awaiting its own verification sees it
VerifiedSharedSlot(r) ==
  /\ pc[r] = "verifying"
  /\ LET c == oracleCalls[r][Len(oracleCalls[r])]
     IN  \E o \in clerkVerifyToken(c.token, c.options) :
           LET res == verifyToken(o)
           IN  /\ answers' = [answers EXCEPT ![r] = Append(@, o)]
               /\ IF res.error = None
                  THEN /\ user' = [q \in Requests |->
                                     IF q = r \/ pc[q] = "verifying" THEN res.user ELSE user[q]]
                       /\ events' = [events EXCEPT ![r] = Append(@, "attach")]
                       /\ pc' = [pc EXCEPT ![r] = afterGate(r)]
                       /\ UNCHANGED <<thrown, raised, observed>>
                  ELSE /\ GateThrows(r, res.error[1], <<>>)
                       /\ UNCHANGED user
  /\ UNCHANGED <<config, unit, cancelled, registration, served, request, todo, escaped, reply,
                 oracleCalls>>

\* the oracle answers; verifyToken returns or throws, and the pre-handler
\* attaches the record or reports and re-throws
Verified(r) ==
  /\ pc[r] = "verifying"
  /\ LET c == oracleCalls[r][Len(oracleCalls[r])]
     IN  \E o \in clerkVerifyToken(c.token, c.options) :
           LET res == verifyToken(o)
           IN  /\ answers' = [answers EXCEPT ![r] = Append(@, o)]
               /\ IF res.error = None
                  THEN /\ user' = [user EXCEPT ![r] = res.user]
                       /\ events' = [events EXCEPT ![r] = Append(@, "attach")]
                       /\ pc' = [pc EXCEPT ![r] = afterGate(r)]
                       /\ UNCHANGED <<thrown, raised, observed>>
                  ELSE /\ GateThrows(r, res.error[1], <<>>)
                       /\ UNCHANGED user
  /\ UNCHANGED <<config, unit, cancelled, registration, served, request, todo, escaped, reply, oracleCalls>>

\* ------------------------------------------------------------------------
\* Route-level guards, the handler and the error mapper
\* ------------------------------------------------------------------------

\* variant: the guard remembers that it let a request through and lets the
\* later requests through without looking at their record
RouteHookMemoised(r) ==
  /\ pc[r] = "routeHooks"
  /\ LET failure == IF served > 1 /\ user[r] # None THEN None
                    ELSE requirePermission(Head(todo[r]), user[r])
     IN  /\ events' = [events EXCEPT ![r] = Append(@, "guard")]
         /\ IF failure # None
            THEN /\ thrown' = [thrown EXCEPT ![r] = failure]
                 /\ raised' = [raised EXCEPT ![r] = Append(@, failure[1])]
                 /\ pc' = [pc EXCEPT ![r] = "errorHandler"]
                 /\ UNCHANGED todo
            ELSE /\ todo' = [todo EXCEPT ![r] = Tail(@)]
                 /\ pc' = [pc EXCEPT ![r] = IF Tail(todo[r]) = <<>> THEN "handler" ELSE "routeHooks"]
                 /\ UNCHANGED <<thrown, raised>>
  /\ UNCHANGED <<config, unit, cancelled, registration, served, request, user, escaped, reply,
                 observed, oracleCalls, answers>>

\* the next route-level preHandler guard runs
RouteHook(r) ==
  /\ pc[r] = "routeHooks"
  /\ LET failure == requirePermission(Head(todo[r]), user[r])
     IN  /\ events' = [events EXCEPT ![r] = Append(@, "guard")]
         /\ IF failure # None
            THEN /\ thrown' = [thrown EXCEPT ![r] = failure]
                 /\ raised' = [raised EXCEPT ![r] = Append(@, failure[1])]
                 /\ pc' = [pc EXCEPT ![r] = "errorHandler"]
                 /\ UNCHANGED todo
            ELSE /\ todo' = [todo EXCEPT ![r] = Tail(@)]
                 /\ pc' = [pc EXCEPT ![r] = IF Tail(todo[r]) = <<>> THEN "handler" ELSE "routeHooks"]
                 /\ UNCHANGED <<thrown, raised>>
  /\ UNCHANGED <<config, unit, cancelled, registration, served, request, user, escaped, reply,
                 observed, oracleCalls, answers>>

\* the reply of a handler that returns: 200 and the userId it read
HandlerReply(slot) ==
  [by |-> "handler", status |-> 200,
   body |-> [userId |-> IF slot = None THEN Undef ELSE slot[1].userId]]

\* what the route's handler throws, None when it returns
handlerThrows(kind, slot) ==
  CASE kind = "getUser" -> getUser(slot).error
    [] kind = "throwsError" -> Some(PlainError(<<"handler failed">>))
    [] kind = "throwsAuthError" -> Some(AuthError("UNAUTHORIZED", <<"Custom">>, Some(403)))
    [] OTHER -> None

\* the business handler of the route runs
Handler(r) ==
  /\ pc[r] = "handler"
  /\ events' = [events EXCEPT ![r] = Append(@, "handler")]
  /\ LET failure == handlerThrows(request[r].route.handler, user[r])
     IN  IF failure # None
         THEN /\ thrown' = [thrown EXCEPT ![r] = failure]
              /\ raised' = [raised EXCEPT ![r] = Append(@, failure[1])]
              /\ pc' = [pc EXCEPT ![r] = "errorHandler"]
              /\ UNCHANGED reply
         ELSE /\ reply' = [reply EXCEPT ![r] = Append(@, HandlerReply(user[r]))]
              /\ pc' = [pc EXCEPT ![r] = "done"]
              /\ UNCHANGED <<thrown, raised>>
  /\ UNCHANGED <<config, unit, cancelled, registration, served, request, user, todo, escaped,
                 observed, oracleCalls, answers>>

\* variant: the status is derived from the code, not read from the error
authErrorHandlerStatusFromCode(error) ==
  IF isAuthError(error)
  THEN [sent |-> <<[by |-> "authErrorHandler",
                    status |-> IF error.code = "FORBIDDEN" THEN 403 ELSE 401,
                    body |-> toResponse(error)]>>,
        rethrown |-> None]
  ELSE [sent |-> <<>>, rethrown |-> Some(error)]

\* variant: the response is sent without returning, the error is thrown too
authErrorHandlerFallsThrough(error) ==
  IF isAuthError(error)
  THEN [sent |-> <<[by |-> "authErrorHandler", status |-> error.statusCode, body |-> toResponse(error)]>>,
        rethrown |-> Some(error)]
  ELSE [sent |-> <<>>, rethrown |-> Some(error)]

\* authErrorHandler(error, request, reply): the response it sends, or the
\* error it re-throws
authErrorHandler(error) ==
  IF isAuthError(error)
  THEN [sent |-> <<[by |-> "authErrorHandler", status |-> error.statusCode, body |-> toResponse(error)]>>,
        rethrown |-> None]
  ELSE [sent |-> <<>>, rethrown |-> Some(error)]

\* variant: the error handler reports every AuthError it maps, wherever it
\* was raised, to the failure observer
ErrorHandlerReports(r) ==
  /\ pc[r] = "errorHandler"
  /\ LET out == authErrorHandler(thrown[r][1])
         l == IF isAuthError(thrown[r][1]) /\ observed[r] = <<>>
              THEN logAuthFailure(thrown[r][1], r, options)
              ELSE [events |-> <<>>, calls |-> <<>>, raised |-> None]
     IN  /\ reply' = [reply EXCEPT ![r] = @ \o out.sent]
         /\ escaped' = [escaped EXCEPT ![r] = out.rethrown]
         /\ observed' = [observed EXCEPT ![r] = @ \o l.calls]
         /\ events' = [events EXCEPT ![r] = @ \o l.events \o <<"errorHandler">>]
  /\ pc' = [pc EXCEPT ![r] = "done"]
  /\ UNCHANGED <<config, unit, cancelled, registration, served, request, user, todo, thrown, raised,
                 oracleCalls, answers>>

\* the error handler installed by the plugin receives the error of the request
ErrorHandler(r) ==
  /\ pc[r] = "errorHandler"
  /\ LET out == authErrorHandler(thrown[r][1])
     IN  /\ reply' = [reply EXCEPT ![r] = @ \o out.sent]
         /\ escaped' = [escaped EXCEPT ![r] = out.rethrown]
  /\ events' = [events EXCEPT ![r] = Append(@, "errorHandler")]
  /\ pc' = [pc EXCEPT ![r] = "done"]
  /\ UNCHANGED <<config, unit, cancelled, registration, served, request, user, todo, thrown, raised,
                 observed, oracleCalls, answers>>

\* ------------------------------------------------------------------------
\* Unit tests: one call of a function of the library on a given input
\* ------------------------------------------------------------------------

\* claim sets the oracle's return type (JwtPayload) admits
JwtPayloads ==
  [sub : {Str("user_123"), Str("")},
   sid : {Str("sess_456"), Undef},
   email : {Str("test@example.com"), Undef, JsNull, Num("42")},
   first_name : {Str("Test"), Undef},
   last_name : {Str("User"), JsNull},
   image_url : {Str("https://img"), Undef},
   org_id : {Str("org_1"), Undef},
   org_role : {Str("admin"), Undef, Num("7")},
   org_slug : {Str("acme"), Undef},
   public_metadata : {MetaUndef, MetaObj(Some(<<"admin">>), None)},
   private_metadata : {MetaUndef, MetaObj(None, Some(<<"read">>))}]

\* what the mocked oracle of a unit test answers
OracleAnswers ==
  {Resolve(Some(p)) : p \in JwtPayloads} \cup {Resolve(None)} \cup OracleRejections

RoleLists ==
  {None, Some(<<>>), Some(<<"user">>), Some(<<"admin", "user">>),
   Some(<<"viewer", "editor", "admin">>)}

ScopeLists ==
  {None, Some(<<>>), Some(<<"read">>), Some(<<"read", "write">>),
   Some(<<"read", "write", "delete">>)}

\* the overrides the tests hand to createMockUser and mockAuth
MockOverrides ==
  LET ids == {[k \in {} |-> JsNull], [userId |-> Str("user_123")]}
      metas == {[k \in {} |-> JsNull]} \cup
               {[publicMetadata |-> MetaObj(rs, ss)] : rs \in RoleLists, ss \in ScopeLists}
      orgs == {[k \in {} |-> JsNull],
               [orgId |-> Str("org_123"), orgRole |-> Str("member")],
               [orgId |-> Str("org_123"), orgRole |-> JsNull],
               [orgId |-> JsNull],
               [orgId |-> Str("org_789")],
               [orgId |-> Str("org_456"), orgRole |-> Str("admin"), orgSlug |-> Str("acme")]}
  IN  {Spread(Spread(i, m), o) : i \in ids, m \in metas, o \in orgs}

\* request.user of the mock request of a guard test: null or a mock user
MockSlots == {None} \cup {Some(createMockUser(o)) : o \in MockOverrides}

\* the guards the tests build
Guards ==
  {requirePermissionGuard("always", <<>>, None),
   requirePermissionGuard("never", <<>>, None),
   requirePermissionGuard("never", <<>>, Some(<<"Custom error message">>)),
   requireRole("admin"), requireRole("editor"),
   requireScopes(<<>>), requireScopes(<<"read">>), requireScopes(<<"read", "write">>),
   requireOrgMembership, requireOrgRole("admin")}

\* the arguments of new AuthError(code, message, statusCode)
AuthErrorArgs ==
  [code : AuthErrorCode,
   message : {<<"Test message">>, <<"Custom">>},
   statusCode : {None, Some(401), Some(403), Some(418)}]

Call(fn, arg, out) == [fn |-> fn, arg |-> arg, out |-> out]

\* extractToken(request) on a request with given headers and cookies
TestExtractToken ==
  /\ unit = NoCall
  /\ \E h \in AuthorizationHeaders, c \in CookieJars :
       LET req == [authorization |-> h, cookies |-> c]
       IN  unit' = Call("extractToken", req, extractToken(req))
  /\ UNCHANGED serving

\* verifyToken(token, options) with the oracle mocked to answer o
TestVerifyToken ==
  /\ unit = NoCall
  /\ \E o \in OracleAnswers : unit' = Call("verifyToken", o, verifyToken(o))
  /\ UNCHANGED serving

\* createMockUser(overrides)
TestCreateMockUser ==
  /\ unit = NoCall
  /\ \E o \in MockOverrides : unit' = Call("createMockUser", o, createMockUser(o))
  /\ UNCHANGED serving

\* middleware(request, mockReply) for a guard and a mock request { user }
TestGuard ==
  /\ unit = NoCall
  /\ \E g \in Guards, slot \in MockSlots :
       unit' = Call("guard", [guard |-> g, request |-> [user |-> slot]],
                    [error |-> requirePermission(g, slot),
                     evaluated |-> predicateCalls(g, slot),
                     request |-> [user |-> slot]])
  /\ UNCHANGED serving

\* getUser(request) for a mock request { user }
TestGetUser ==
  /\ unit = NoCall
  /\ \E slot \in MockSlots :
       unit' = Call("getUser", [request |-> [user |-> slot]],
                    [returned |-> getUser(slot).user, error |-> getUser(slot).error,
                     request |-> [user |-> slot]])
  /\ UNCHANGED serving

\* new AuthError(code, message, statusCode)
TestAuthError ==
  /\ unit = NoCall
  /\ \E a \in AuthErrorArgs :
       unit' = Call("AuthError", a,
                    [error |-> AuthError(a.code, a.message, a.statusCode), response |-> None])
  /\ UNCHANGED serving

\* error.toResponse() and isAuthError(error) on the error just constructed
TestToResponse ==
  /\ unit.fn = "AuthError"
  /\ unit.out.response = None
  /\ unit' = [unit EXCEPT !.out.response = Some([body |-> toResponse(unit.out.error),
                                                  isAuthError |-> isAuthError(unit.out.error)])]
  /\ UNCHANGED serving

\* the test ends
TestDone ==
  /\ unit # NoCall
  /\ unit' = NoCall
  /\ UNCHANGED serving

\* ------------------------------------------------------------------------
\* Specification
\* ------------------------------------------------------------------------

Next ==
  \/ authPluginImpl
  \/ \E r \in Requests : Receive(r)
  \/ \E r \in Requests : PreHandler(r)
  \/ \E r \in Requests : Verified(r)
  \/ \E r \in Requests : RouteHook(r)
  \/ \E r \in Requests : Handler(r)
  \/ \E r \in Requests : ErrorHandler(r)
  \/ \E r \in Requests : Complete(r)

Spec == Init /\ [][Next]_vars

\* ------------------------------------------------------------------------
\* Concurrent requests and cancellation
\* ------------------------------------------------------------------------

\* options of a server that forwards authorized parties and an offline key
ConcurrentOptions ==
  [secretKey : {None, Some("sk_test_123")},
   authorizedParties : {None, Some(<<"https://app.example.com">>)},
   jwtKey : {None, Some("-----BEGIN PUBLIC KEY-----")},
   respectPublicRoutes : {None},
   logFailures : {None},
   onAuthFailure : {None}]

ConcurrentHeaders == {None, Some(BearerPrefix \o TokAlice), Some(BearerPrefix \o TokOld)}

ConcurrentJars == {None, Some([c \in {"__session"} |-> TokBob])}

ConcurrentRoutes ==
  {Route(Some(TRUE), <<>>, "plain"),
   Route(None, <<>>, "getUser"),
   Route(None, <<requireRole("admin")>>, "getUser")}

\* the host dispatches both requests, so that they overlap
ConcurrentInit ==
  /\ server = "starting"
  /\ options \in ConcurrentOptions
  /\ env = Some("sk_test_from_env")
  /\ verifyOptions = None
  /\ installed = {}
  /\ startupError = None
  /\ admitted = Requests
  /\ served = 0
  /\ pc = [r \in Requests |-> "idle"]
  /\ request = [r \in Requests |-> NoRequest]
  /\ user = [r \in Requests |-> None]
  /\ todo = [r \in Requests |-> <<>>]
  /\ thrown = [r \in Requests |-> None]
  /\ raised = [r \in Requests |-> <<>>]
  /\ escaped = [r \in Requests |-> None]
  /\ reply = [r \in Requests |-> <<>>]
  /\ events = [r \in Requests |-> <<>>]
  /\ observed = [r \in Requests |-> <<>>]
  /\ oracleCalls = [r \in Requests |-> <<>>]
  /\ answers = [r \in Requests |-> <<>>]
  /\ unit = NoCall
  /\ cancelled = [r \in Requests |-> FALSE]

\* the client disconnects, or the request times out, while the pre-handler
\* awaits the oracle: the pre-handler registers no listener and hands the
\* oracle no abort signal, so nothing of the request changes
Cancel(r) ==
  /\ pc[r] = "verifying"
  /\ ~cancelled[r]
  /\ cancelled' = [cancelled EXCEPT ![r] = TRUE]
  /\ UNCHANGED <<config, unit, registration, served, pc, request, user, todo, thrown,
                 raised, escaped, reply, events, observed, oracleCalls, answers>>

\* the host may give up a cancelled request once the pre-handler returned,
\* instead of going on to the route's guards and handler
Drop(r) ==
  /\ cancelled[r]
  /\ pc[r] \in {"routeHooks", "handler"}
  /\ pc' = [pc EXCEPT ![r] = "done"]
  /\ UNCHANGED <<config, unit, cancelled, registration, served, request, user, todo, thrown,
                 raised, escaped, reply, events, observed, oracleCalls, answers>>

ConcurrentNext ==
  \/ authPluginImpl
  \/ \E r \in Requests : ReceiveFrom(r, ConcurrentHeaders, ConcurrentJars, ConcurrentRoutes)
  \/ \E r \in Requests : PreHandler(r)
  \/ \E r \in Requests : Cancel(r)
  \/ \E r \in Requests : Verified(r)
  \/ \E r \in Requests : Drop(r)
  \/ \E r \in Requests : RouteHook(r)
  \/ \E r \in Requests : Handler(r)
  \/ \E r \in Requests : ErrorHandler(r)
  \/ \E r \in Requests : Complete(r)

ConcurrentSpec == ConcurrentInit /\ [][ConcurrentNext]_vars

\* the unit tests run against the library alone: no server is started
UnitInit ==
  /\ Init
  /\ options = [secretKey |-> Some("sk_test_123"), authorizedParties |-> None,
                jwtKey |-> None, respectPublicRoutes |-> None, logFailures |-> None,
                onAuthFailure |-> None]
  /\ env = None

UnitNext ==
  \/ TestExtractToken
  \/ TestVerifyToken
  \/ TestCreateMockUser
  \/ TestGuard
  \/ TestGetUser
  \/ TestAuthError
  \/ TestToResponse
  \/ TestDone

UnitSpec == UnitInit /\ [][UnitNext]_vars

TypeOK ==
  /\ server \in {"starting", "ready", "failed"}
  /\ served \in 0..MaxServed
  /\ \A r \in Requests :
       /\ pc[r] \in {"idle", "preHandler", "verifying", "routeHooks", "handler", "errorHandler", "done"}
       /\ Len(reply[r]) <= 1

\* ------------------------------------------------------------------------
\* Vocabulary of the properties
\* ------------------------------------------------------------------------

Ran(r, e) == \E i \in 1..Len(events[r]) : events[r][i] = e

Count(seq, e) == Cardinality({i \in 1..Len(seq) : seq[i] = e})

\* every occurrence of b in the request's events has an a before it
Precedes(r, a, b) ==
  \A i \in 1..Len(events[r]) :
    events[r][i] = b => \E j \in 1..(i - 1) : events[r][j] = a

\* a request is being handled, or has been
InFlight(r) == pc[r] # "idle"

\* the Gate's pre-handler has returned or thrown
PastGate(r) == pc[r] \in {"routeHooks", "handler", "errorHandler", "done"}

\* the route carries the public marker and recognition is not disabled
PublicRoute(r) ==
  /\ request[r].route.config = Some([public |-> Some(TRUE)])
  /\ options.respectPublicRoutes # Some(FALSE)

\* the oracle accepted the credential and the delegate returned a record
DelegateSucceeded(r) ==
  /\ Len(answers[r]) = 1
  /\ answers[r][1].settle = "resolve"
  /\ answers[r][1].payload # None

\* the oracle call of the request failed
OracleRejected(r) == Len(answers[r]) = 1 /\ answers[r][1].settle = "reject"

\* the Gate aborted the request: no record was attached on a non-public route
GateFailed(r) == PastGate(r) /\ ~PublicRoute(r) /\ ~Ran(r, "attach")

\* the response the error mapper sends for an AuthError
Mapped(error) ==
  <<[by |-> "authErrorHandler", status |-> error.statusCode,
     body |-> [error |-> [code |-> error.code, message |-> error.message]]]>>

\* ------------------------------------------------------------------------
\* Properties
\* ------------------------------------------------------------------------

\* C1: on a route the Gate does not treat as public, a permission guard or
\* the handler runs only after a credential was extracted and handed to the
\* delegate, the delegate succeeded and the record was attached; a request
\* whose extraction found nothing or whose verification failed ends without
\* any guard or handler having run.
C1_FailClosed ==
  \A r \in Requests :
    (InFlight(r) /\ ~PublicRoute(r)) =>
      /\ (Ran(r, "guard") \/ Ran(r, "handler")) =>
           /\ Len(oracleCalls[r]) = 1
           /\ DelegateSucceeded(r)
           /\ user[r] # None
           /\ Precedes(r, "extractToken", "clerkVerifyToken")
           /\ Precedes(r, "clerkVerifyToken", "attach")
           /\ Precedes(r, "attach", "guard")
           /\ Precedes(r, "attach", "handler")
      /\ (PastGate(r) /\ ~DelegateSucceeded(r)) =>
           /\ ~Ran(r, "guard")
           /\ ~Ran(r, "handler")
           /\ thrown[r] # None
           /\ pc[r] \in {"errorHandler", "done"}

\* witness of C1: a request to a non-public route was aborted after the
\* oracle rejected its credential
C1_Witness ==
  \E r \in Requests :
    /\ pc[r] = "done" /\ ~PublicRoute(r) /\ OracleRejected(r)
    /\ ~Ran(r, "handler")

\* C2: an Identity Record is attached to a request only if the delegate
\* succeeded on the credential extracted from that request; the slot is
\* absent at the start, and after a bypass, a missing credential or a
\* verification failure.
C2_IdentityOnlyAfterVerification ==
  \A r \in Requests :
    /\ user[r] # None =>
         /\ DelegateSucceeded(r)
         /\ ~PublicRoute(r)
         /\ Len(oracleCalls[r]) = 1
         /\ Some(oracleCalls[r][1].token) = extractToken(request[r])
         /\ user[r] = Some(mapClerkPayloadToUserContext(answers[r][1].payload[1]))
    /\ pc[r] \in {"idle", "preHandler", "verifying"} => user[r] = None
    /\ (PastGate(r) /\ (PublicRoute(r) \/ oracleCalls[r] = <<>> \/ ~DelegateSucceeded(r))) =>
         user[r] = None

\* witness of C2: a record is attached after a successful verification
C2_Witness ==
  \E r \in Requests : user[r] # None /\ DelegateSucceeded(r) /\ PastGate(r)

\* C3: on a route with the public marker, recognition not disabled, the Gate
\* extracts nothing, never calls the delegate, attaches nothing, never calls
\* the failure observer and does not abort: the request goes on to the
\* route's own guards and handler, and the handler runs when the route has
\* no guard, whatever credentials the request carries.
C3_PublicBypass ==
  \A r \in Requests :
    (InFlight(r) /\ PublicRoute(r)) =>
      /\ ~Ran(r, "extractToken")
      /\ ~Ran(r, "clerkVerifyToken")
      /\ oracleCalls[r] = <<>>
      /\ user[r] = None
      /\ observed[r] = <<>>
      /\ ~Ran(r, "onAuthFailure")
      /\ pc[r] # "verifying"
      /\ pc[r] \in {"errorHandler", "done"} => (Ran(r, "guard") \/ Ran(r, "handler"))
      /\ (pc[r] = "done" /\ request[r].route.preHandler = <<>>) => Ran(r, "handler")

\* witness of C3: a request carrying a bearer credential and a session
\* cookie was served by the handler of a public route
C3_Witness ==
  \E r \in Requests :
    /\ pc[r] = "done" /\ PublicRoute(r) /\ Ran(r, "handler")
    /\ request[r].authorization = Some(BearerPrefix \o TokAlice)
    /\ sessionCookie(request[r].cookies) # None
    /\ options.onAuthFailure # None

\* the request carries neither a bearer Authorization header nor a
\* __session cookie
NoCredential(r) ==
  /\ \/ request[r].authorization = None
     \/ ~StartsWith(request[r].authorization[1], BearerPrefix)
  /\ \/ request[r].cookies = None
     \/ "__session" \notin DOMAIN request[r].cookies[1]

Err401(code, message) ==
  [name |-> "AuthError", code |-> code, message |-> message, statusCode |-> 401]

ErrUnauthorized == Err401("UNAUTHORIZED", <<"Authentication required">>)

ErrInvalidToken == Err401("INVALID_TOKEN", <<"Invalid or malformed token">>)

ErrTokenExpired == Err401("TOKEN_EXPIRED", <<"Token has expired">>)

\* how a request aborted by the Gate with error ends: the mapped response,
\* or, when the failure observer raises, its exception left to the host
EndsWith401OrObserverFault(r, error) ==
  IF options.onAuthFailure = Some("throws")
  THEN reply[r] = <<>> /\ escaped[r] = Some(ObserverError)
  ELSE reply[r] = Mapped(error) /\ escaped[r] = None

\* C4 as stated: a request without credential to a non-public route never
\* reaches the delegate or the handler and always receives 401 with the
\* body {"error":{"code":"UNAUTHORIZED","message":"Authentication required"}}.
C4_Original ==
  \A r \in Requests :
    (InFlight(r) /\ ~PublicRoute(r) /\ NoCredential(r)) =>
      /\ oracleCalls[r] = <<>>
      /\ ~Ran(r, "clerkVerifyToken")
      /\ ~Ran(r, "handler")
      /\ pc[r] = "done" => reply[r] = Mapped(ErrUnauthorized)

\* C4 (amended): a request without credential to a non-public route never
\* reaches the delegate or the handler; it receives 401 with the body
\* {"error":{"code":"UNAUTHORIZED","message":"Authentication required"}}
\* unless a configured failure observer raises, in which case no 401 is
\* sent and the observer's exception is left to the host.
C4_NoCredential401 ==
  \A r \in Requests :
    (InFlight(r) /\ ~PublicRoute(r) /\ NoCredential(r)) =>
      /\ oracleCalls[r] = <<>>
      /\ ~Ran(r, "clerkVerifyToken")
      /\ ~Ran(r, "handler")
      /\ pc[r] = "done" => EndsWith401OrObserverFault(r, ErrUnauthorized)

\* witness of C4: a request without credential got the 401 response
C4_Witness ==
  \E r \in Requests :
    /\ pc[r] = "done" /\ ~PublicRoute(r) /\ NoCredential(r)
    /\ reply[r] = Mapped(ErrUnauthorized)

\* the Authorization header is exactly "Bearer "
EmptyBearer(r) == request[r].authorization = Some(BearerPrefix)

\* C5 as stated: the empty credential of a "Bearer " header is handed to the
\* delegate, and the request fails with INVALID_TOKEN.
C5_Original ==
  \A r \in Requests :
    (PastGate(r) /\ ~PublicRoute(r) /\ EmptyBearer(r)) =>
      /\ extractToken(request[r]) = Some(<<>>)
      /\ Len(oracleCalls[r]) = 1
      /\ raised[r] = <<ErrInvalidToken>>

\* C5 (amended): the empty string is extracted from a "Bearer " header, the
\* Gate treats it as a missing credential: the delegate is never called and
\* the request fails with UNAUTHORIZED, 'Authentication required'.
C5_EmptyBearerUnauthorized ==
  \A r \in Requests :
    (PastGate(r) /\ ~PublicRoute(r) /\ EmptyBearer(r)) =>
      /\ extractToken(request[r]) = Some(<<>>)
      /\ oracleCalls[r] = <<>>
      /\ ~Ran(r, "clerkVerifyToken")
      /\ ~Ran(r, "handler")
      /\ raised[r] = <<ErrUnauthorized>>

\* witness of C5: a request with the header "Bearer " was aborted
C5_Witness ==
  \E r \in Requests :
    /\ pc[r] = "done" /\ ~PublicRoute(r) /\ EmptyBearer(r)
    /\ raised[r] = <<ErrUnauthorized>>

\* the AuthError the delegate owes for an oracle rejection
ExpectedForRejection(o) ==
  IF o.reason = "token-expired" THEN ErrTokenExpired ELSE ErrInvalidToken

\* C6 as stated: an oracle rejection makes the delegate fail with
\* TOKEN_EXPIRED when the reason is expiry and INVALID_TOKEN otherwise, and
\* the client always receives 401 with that code.
C6_Original ==
  \A r \in Requests :
    (PastGate(r) /\ OracleRejected(r)) =>
      /\ raised[r] = <<ExpectedForRejection(answers[r][1])>>
      /\ pc[r] = "done" => reply[r] = Mapped(ExpectedForRejection(answers[r][1]))

\* C6 (amended): an oracle rejection makes the delegate fail with
\* TOKEN_EXPIRED, 'Token has expired', when the reason is expiry and with
\* INVALID_TOKEN, 'Invalid or malformed token', otherwise; the client
\* receives 401 with that code unless a configured failure observer raises,
\* in which case the observer's exception is left to the host.
C6_ClassifiedRejection ==
  \A r \in Requests :
    (PastGate(r) /\ OracleRejected(r)) =>
      /\ raised[r] = <<ExpectedForRejection(answers[r][1])>>
      /\ pc[r] = "done" => EndsWith401OrObserverFault(r, ExpectedForRejection(answers[r][1]))

\* witness of C6: a credential rejected as expired was answered with 401
\* TOKEN_EXPIRED
C6_Witness ==
  \E r \in Requests :
    /\ pc[r] = "done" /\ OracleRejected(r)
    /\ answers[r][1].reason = "token-expired"
    /\ reply[r] = Mapped(ErrTokenExpired)

\* C7: when the error mapper receives the error of a request, an AuthError
\* (from the Gate, the delegate, a guard, getUser or the handler) becomes a
\* response with the error's own status and the body {error:{code,message}}
\* of the error's code and message, and nothing is re-raised; any other error
\* is re-raised unchanged and the mapper sends nothing.
C7_ErrorMapper ==
  \A r \in Requests :
    Ran(r, "errorHandler") =>
      /\ thrown[r] # None
      /\ LET e == thrown[r][1]
         IN  IF e.name = "AuthError"
             THEN /\ reply[r] = <<[by |-> "authErrorHandler", status |-> e.statusCode,
                                   body |-> [error |-> [code |-> e.code, message |-> e.message]]]>>
                  /\ escaped[r] = None
             ELSE /\ reply[r] = <<>>
                  /\ escaped[r] = Some(e)

\* witness of C7: an AuthError built with a status override was answered
\* with the overriding status
C7_Witness ==
  \E r \in Requests :
    /\ Ran(r, "errorHandler")
    /\ thrown[r] = Some([name |-> "AuthError", code |-> "UNAUTHORIZED",
                         message |-> <<"Custom">>, statusCode |-> 403])
    /\ Len(reply[r]) = 1 /\ reply[r][1].status = 403

\* the request ended with an AuthError
EndedInAuthError(r) ==
  pc[r] = "done" /\ thrown[r] # None /\ thrown[r][1].name = "AuthError"

C9_ObserverOncePerGateFailure ==
  \A r \in Requests :
    /\ GateFailed(r) =>
         /\ raised[r] # <<>>
         /\ raised[r][1].code \in {"UNAUTHORIZED", "INVALID_TOKEN", "TOKEN_EXPIRED"}
         /\ observed[r] = IF options.onAuthFailure = None THEN <<>>
                          ELSE <<[error |-> raised[r][1], request |-> r]>>
         /\ Count(events[r], "onAuthFailure") = Len(observed[r])
         /\ options.onAuthFailure = Some("returns") => thrown[r] = Some(observed[r][1].error)
    /\ ~GateFailed(r) => (observed[r] = <<>> /\ ~Ran(r, "onAuthFailure"))

\* witness of C9: the observer was called once for an expired credential
\* while logging was switched off
C9_Witness ==
  \E r \in Requests :
    /\ GateFailed(r) /\ OracleRejected(r)
    /\ options.logFailures = Some(FALSE)
    /\ observed[r] = <<[error |-> ErrTokenExpired, request |-> r]>>

\* the AuthError the Gate owes a request it aborts
ExpectedGateError(r) ==
  IF answers[r] = <<>> THEN ErrUnauthorized
  ELSE IF answers[r][1].settle = "reject" THEN ExpectedForRejection(answers[r][1])
  ELSE ErrInvalidToken

\* C10 as stated: whatever the observer does, a request aborted by the Gate
\* gets the response it gets without observer, and the handler does not run.
C10_Original ==
  \A r \in Requests :
    (pc[r] = "done" /\ GateFailed(r)) =>
      /\ ~Ran(r, "handler")
      /\ reply[r] = Mapped(ExpectedGateError(r))
      /\ escaped[r] = None

\* C10 (amended): the observer is called only for requests the Gate aborts;
\* such a request never reaches a guard or the handler, and with an observer
\* that returns it gets the very response it gets with no observer; an
\* exception raised by the observer is not caught: no response is sent by
\* the mapper and the exception is left to the host.
C10_ObserverSideChannel ==
  \A r \in Requests :
    /\ ~GateFailed(r) => observed[r] = <<>>
    /\ (pc[r] = "done" /\ GateFailed(r)) =>
         /\ ~Ran(r, "guard")
         /\ ~Ran(r, "handler")
         /\ IF options.onAuthFailure = Some("throws")
            THEN reply[r] = <<>> /\ escaped[r] = Some(ObserverError)
            ELSE reply[r] = Mapped(ExpectedGateError(r)) /\ escaped[r] = None

\* witness of C10: with an observer that returns, an aborted request got the
\* response owed without observer
C10_Witness ==
  \E r \in Requests :
    /\ pc[r] = "done" /\ GateFailed(r)
    /\ options.onAuthFailure = Some("returns")
    /\ observed[r] # <<>>
    /\ reply[r] = Mapped(ExpectedGateError(r))

\* ------------------------------------------------------------------------
\* Vocabulary of the unit-level properties
\* ------------------------------------------------------------------------

\* the unit test under way calls fn
Calls(fn) == unit.fn = fn

\* e is an AuthError of the given kind, status and message
IsAuthError(e, code, statusCode, message) ==
  /\ e.name = "AuthError"
  /\ e.code = code
  /\ e.statusCode = statusCode
  /\ e.message = message

\* what the predicate of the guards of the tests answers for a record: the
\* custom predicates are constant, the others are the library's
PredicateHolds(guard, record) ==
  IF guard.check = "always" THEN TRUE
  ELSE IF guard.check = "never" THEN FALSE
  ELSE check(guard, record)

\* ------------------------------------------------------------------------
\* C11
\* ------------------------------------------------------------------------

\* C11: a guard built by requirePermission(predicate, message), run on a
\* request without an Identity Record, fails with UNAUTHORIZED (401,
\* 'Authentication required') whatever its message and never evaluates the
\* predicate; run on a request with a record it evaluates the predicate on
\* that record, fails with FORBIDDEN (403) and the given message (by default
\* 'Insufficient permissions') iff the predicate is false, and otherwise
\* completes leaving the request as it was.
C11_RequirePermission ==
  Calls("guard") =>
    LET guard == unit.arg.guard
        slot == unit.arg.request.user
        failure == unit.out.error
    IN  /\ slot = None =>
             /\ failure # None
             /\ IsAuthError(failure[1], "UNAUTHORIZED", 401, <<"Authentication required">>)
             /\ unit.out.evaluated = <<>>
        /\ slot # None =>
             /\ unit.out.evaluated = <<slot[1]>>
             /\ failure # None <=> ~PredicateHolds(guard, slot[1])
             /\ failure # None =>
                  IsAuthError(failure[1], "FORBIDDEN", 403, guard.errorMessage)
             /\ guard = requirePermissionGuard("never", <<>>, None) =>
                  failure[1].message = <<"Insufficient permissions">>
             /\ guard = requirePermissionGuard("never", <<>>, Some(<<"Custom error message">>)) =>
                  failure[1].message = <<"Custom error message">>
        /\ unit.out.request = unit.arg.request

\* a guard with a custom message, run on a request without a record, fails
\* with UNAUTHORIZED and has not evaluated its predicate
C11_Witness ==
  /\ Calls("guard")
  /\ unit.arg.guard = requirePermissionGuard("never", <<>>, Some(<<"Custom error message">>))
  /\ unit.arg.request.user = None
  /\ unit.out.error # None
  /\ unit.out.error[1].code = "UNAUTHORIZED"
  /\ unit.out.evaluated = <<>>

\* ------------------------------------------------------------------------
\* C12, C13, C14
\* ------------------------------------------------------------------------

\* the header of the request is 'Bearer ' followed by a credential
HasBearer(req) ==
  /\ req.authorization # None
  /\ Len(req.authorization[1]) >= 7
  /\ \A i \in 1..7 : req.authorization[1][i] = BearerPrefix[i]

\* what follows the seven characters of the prefix
AfterPrefix(req) ==
  [i \in 1..(Len(req.authorization[1]) - 7) |-> req.authorization[1][i + 7]]

\* the request carries a __session cookie
HasSessionCookie(req) ==
  req.cookies # None /\ "__session" \in DOMAIN req.cookies[1]

SessionCookieValue(req) == req.cookies[1]["__session"]

\* C12: when the Authorization header starts with the exact prefix 'Bearer '
\* extractToken returns the header's credential, also when a __session cookie
\* is present; a cookie's value is returned only when the header is absent
\* or does not start with that prefix ('Basic ...', 'Bearertoken', 'bearer
\* ...'); with neither a matching header nor a cookie the result is null.
C12_HeaderBeforeCookie ==
  Calls("extractToken") =>
    /\ HasBearer(unit.arg) => unit.out = Some(AfterPrefix(unit.arg))
    /\ (HasSessionCookie(unit.arg) /\ unit.out = Some(SessionCookieValue(unit.arg))
          /\ unit.out # None /\ unit.out[1] # <<>>)
         => (~HasBearer(unit.arg) \/ AfterPrefix(unit.arg) = SessionCookieValue(unit.arg))
    /\ (~HasBearer(unit.arg) /\ ~HasSessionCookie(unit.arg)) => unit.out = None

\* a request with a bearer header and a __session cookie of another value
\* yields the header's credential
C12_Witness ==
  /\ Calls("extractToken")
  /\ unit.arg.authorization = Some(BearerPrefix \o TokAlice)
  /\ HasSessionCookie(unit.arg)
  /\ SessionCookieValue(unit.arg) = TokBob
  /\ unit.out = Some(TokAlice)

C14_Original ==
  (Calls("extractToken") /\ ~HasBearer(unit.arg)) =>
    /\ HasSessionCookie(unit.arg) => unit.out = Some(SessionCookieValue(unit.arg))
    /\ unit.out = None => ~HasSessionCookie(unit.arg)

\* C14: without a matching bearer header, a present __session cookie whose
\* value is not empty is returned verbatim, without validation of its
\* shape; null is returned when the cookie is not present and also when its
\* value is the empty string.
C14_CookieVerbatimUnlessEmpty ==
  (Calls("extractToken") /\ ~HasBearer(unit.arg)) =>
    IF HasSessionCookie(unit.arg) /\ Len(SessionCookieValue(unit.arg)) > 0
    THEN unit.out = Some(SessionCookieValue(unit.arg))
    ELSE unit.out = None

\* a request with a 'Basic' header and a __session cookie yields the cookie
C14_Witness ==
  /\ Calls("extractToken")
  /\ unit.arg.authorization # None
  /\ ~HasBearer(unit.arg)
  /\ HasSessionCookie(unit.arg)
  /\ unit.out = Some(TokBob)

\* ------------------------------------------------------------------------
\* C15, C16, C17
\* ------------------------------------------------------------------------

\* the unit test called verifyToken and the oracle resolved with a claim set
VerifiedClaimSet ==
  /\ Calls("verifyToken")
  /\ unit.arg.settle = "resolve"
  /\ unit.arg.payload # None

\* attribute f of the record is claim c when c is a string, null otherwise
StringClaim(record, f, claims, c) ==
  IF claims[c].t = "string" THEN record[f] = claims[c]
  ELSE record[f].t = "null"

\* attribute f of the record is claim c, or an empty mapping when c is absent
MetadataClaim(record, f, claims, c) ==
  IF claims[c].t = "undefined"
  THEN record[f] = [t |-> "object", roles |-> None, scopes |-> None]
  ELSE record[f] = claims[c]

\* the attributes that are a claim when it is a string and null otherwise
OptionalAttributes ==
  {<<"email", "email">>, <<"firstName", "first_name">>, <<"lastName", "last_name">>,
   <<"imageUrl", "image_url">>, <<"orgId", "org_id">>, <<"orgRole", "org_role">>,
   <<"orgSlug", "org_slug">>}

\* C15: when the oracle resolves with a claim set, verifyToken returns the
\* record with userId = sub, sessionId = sid or '' when sid is absent, each
\* of email, firstName, lastName, imageUrl, orgId, orgRole, orgSlug equal to
\* its claim when that is a string and null otherwise, publicMetadata and
\* privateMetadata equal to their claim or an empty mapping when absent, and
\* raw equal to the claim set.
C15_IdentityRecordMapping ==
  VerifiedClaimSet =>
    /\ unit.out.error = None
    /\ unit.out.user # None
    /\ LET claims == unit.arg.payload[1]
           record == unit.out.user[1]
       IN  /\ record.userId = claims.sub
           /\ IF claims.sid.t = "undefined" THEN record.sessionId = [t |-> "string", v |-> ""]
              ELSE record.sessionId = claims.sid
           /\ \A a \in OptionalAttributes : StringClaim(record, a[1], claims, a[2])
           /\ MetadataClaim(record, "publicMetadata", claims, "public_metadata")
           /\ MetadataClaim(record, "privateMetadata", claims, "private_metadata")
           /\ record.raw = claims

\* a claim set with a numeric email, no sid and a null last name is mapped
C15_Witness ==
  /\ VerifiedClaimSet
  /\ unit.arg.payload[1].email.t = "number"
  /\ unit.arg.payload[1].sid.t = "undefined"
  /\ unit.arg.payload[1].last_name.t = "null"
  /\ unit.arg.payload[1].org_id.t = "string"
  /\ unit.out.user # None
  /\ unit.out.user[1].email.t = "null"
  /\ unit.out.user[1].sessionId.v = ""

\* the unit test produced an Identity Record: verifyToken returned one, or
\* the test double built one
ProducedRecord ==
  \/ VerifiedClaimSet /\ unit.out.user # None
  \/ Calls("createMockUser")

TheRecord == IF Calls("createMockUser") THEN unit.out ELSE unit.out.user[1]

OrgAttributes == {"orgId", "orgRole", "orgSlug"}

\* C16 as stated: in every Identity Record, from the delegate or from the
\* test double, the organization role is non-null only if the organization
\* identifier is; the three organization attributes are null together or
\* populated together.
C16_Original ==
  ProducedRecord =>
    /\ TheRecord.orgRole.t # "null" => TheRecord.orgId.t # "null"
    /\ \/ \A f \in OrgAttributes : TheRecord[f].t = "null"
       \/ \A f \in OrgAttributes : TheRecord[f].t # "null"

\* C16: each organization attribute of a record of the delegate is non-null
\* exactly when its own claim is a string, so the three go together exactly
\* when the three claims do; the test double leaves each organization
\* attribute null unless it is overridden and sets exactly the overrides.
C16_OrgAttributesFollowTheirOwnSource ==
  /\ VerifiedClaimSet =>
       LET claims == unit.arg.payload[1]
           record == unit.out.user[1]
           strings == {c \in {"org_id", "org_role", "org_slug"} : claims[c].t = "string"}
       IN  /\ record.orgId.t # "null" <=> claims.org_id.t = "string"
           /\ record.orgRole.t # "null" <=> claims.org_role.t = "string"
           /\ record.orgSlug.t # "null" <=> claims.org_slug.t = "string"
           /\ ((\A f \in OrgAttributes : record[f].t = "null")
                \/ (\A f \in OrgAttributes : record[f].t # "null"))
                <=> Cardinality(strings) \in {0, 3}
  /\ Calls("createMockUser") =>
       \A f \in OrgAttributes :
         IF f \in DOMAIN unit.arg THEN unit.out[f] = unit.arg[f]
         ELSE unit.out[f].t = "null"

\* the oracle returns a role without an organization and the record has a
\* role and no organization identifier
C16_Witness ==
  /\ VerifiedClaimSet
  /\ unit.arg.payload[1].org_role.t = "string"
  /\ unit.arg.payload[1].org_id.t = "undefined"
  /\ unit.out.user[1].orgRole.t = "string"
  /\ unit.out.user[1].orgId.t = "null"

\* C17 as stated: the userId of every record attached to a request is a
\* non-empty string.
C17_Original ==
  \A r \in Requests :
    user[r] # None => (user[r][1].userId.t = "string" /\ user[r][1].userId.v # "")

\* C17: the userId of every record attached to a request is the sub claim
\* of the claim set the oracle returned for that request, unchanged; it is
\* the empty string exactly when that claim is.
C17_UserIdIsSubject ==
  \A r \in Requests :
    user[r] # None =>
      /\ DelegateSucceeded(r)
      /\ user[r][1].userId = answers[r][1].payload[1].sub
      /\ user[r][1].userId.v = "" <=> answers[r][1].payload[1].sub.v = ""

\* a record whose subject is the empty string reaches the handler
C17_Witness ==
  \E r \in Requests :
    /\ Ran(r, "handler")
    /\ user[r] # None
    /\ DelegateSucceeded(r)
    /\ answers[r][1].payload[1].sub.v = ""
    /\ user[r][1].userId.v = ""

\* ------------------------------------------------------------------------
\* C18, C19, C20
\* ------------------------------------------------------------------------

\* the error of the unit test is what its constructor was asked for
ConstructedAsAsked ==
  Calls("AuthError") =>
    LET asked == unit.arg
        error == unit.out.error
    IN  /\ error.name = "AuthError"
        /\ error.code = asked.code
        /\ error.message = asked.message
        /\ asked.statusCode = None =>
             error.statusCode = (IF asked.code = "FORBIDDEN" THEN 403 ELSE 401)
        /\ asked.statusCode # None => error.statusCode = asked.statusCode[1]

\* a step that starts from a constructed error leaves the error as it is
ErrorKept ==
  (Calls("AuthError") /\ unit'.fn = "AuthError") =>
    /\ unit'.arg = unit.arg
    /\ unit'.out.error = unit.out.error

\* C18: an AuthError built without a status override has status 403 when
\* its kind is FORBIDDEN and 401 when it is UNAUTHORIZED, INVALID_TOKEN or
\* TOKEN_EXPIRED; an override replaces the status and leaves kind and
\* message as given; kind and status stay as constructed while the error
\* is used (toResponse, isAuthError).
C18_KindAndStatus == [](ConstructedAsAsked) /\ [][ErrorKept]_vars

\* an UNAUTHORIZED error built with status 403 has been serialized and is
\* still UNAUTHORIZED with status 403
C18_Witness ==
  /\ Calls("AuthError")
  /\ unit.arg.code = "UNAUTHORIZED"
  /\ unit.arg.statusCode = Some(403)
  /\ unit.out.response # None
  /\ unit.out.error.code = "UNAUTHORIZED"
  /\ unit.out.error.statusCode = 403

\* the guard of the unit test was run on a request with an Identity Record
GuardOnRecord == Calls("guard") /\ unit.arg.request.user # None

\* the list under key of the public metadata of the record contains x
\* (an absent list contains nothing)
Granted(record, key, x) ==
  /\ record.publicMetadata[key] # None
  /\ \E i \in 1..Len(record.publicMetadata[key][1]) : record.publicMetadata[key][1][i] = x

\* C19: requireRole(r), run on a request with a record, succeeds iff the
\* 'roles' list of the record's public metadata contains r, an absent list
\* counting as empty; otherwise it fails with FORBIDDEN (403) and the
\* message "Role '<r>' required".
C19_RequireRole ==
  \A r \in {"admin", "editor"} :
    (GuardOnRecord /\ unit.arg.guard.check = "role" /\ unit.arg.guard.arg = <<r>>) =>
      LET record == unit.arg.request.user[1]
      IN  IF Granted(record, "roles", r)
          THEN unit.out.error = None
          ELSE /\ unit.out.error # None
               /\ IsAuthError(unit.out.error[1], "FORBIDDEN", 403, <<"Role '", r, "' required">>)

\* requireRole('admin') refuses a record whose public metadata has no roles
C19_Witness ==
  /\ GuardOnRecord
  /\ unit.arg.guard.check = "role"
  /\ unit.arg.guard.arg = <<"admin">>
  /\ unit.arg.request.user[1].publicMetadata.roles = None
  /\ unit.out.error # None
  /\ unit.out.error[1].code = "FORBIDDEN"

\* the message of requireScopes for the target lists of the tests
ScopesMessage(scopes) ==
  CASE scopes = <<>> -> <<"Scopes required: ">>
    [] scopes = <<"read">> -> <<"Scopes required: ", "read">>
    [] scopes = <<"read", "write">> -> <<"Scopes required: ", "read", ", ", "write">>

\* C20: requireScopes(S), run on a request with a record, succeeds iff
\* every scope of S is in the 'scopes' list of the record's public
\* metadata, an absent list counting as empty; requireScopes([]) succeeds
\* for every record; a failure is FORBIDDEN (403) with the message 'Scopes
\* required: ' followed by the scopes of S joined by ', '.
C20_RequireScopes ==
  (GuardOnRecord /\ unit.arg.guard.check = "scopes") =>
    LET record == unit.arg.request.user[1]
        scopes == unit.arg.guard.arg
    IN  /\ IF \A i \in 1..Len(scopes) : Granted(record, "scopes", scopes[i])
           THEN unit.out.error = None
           ELSE /\ unit.out.error # None
                /\ IsAuthError(unit.out.error[1], "FORBIDDEN", 403, ScopesMessage(scopes))
        /\ scopes = <<>> => unit.out.error = None

\* requireScopes([]) lets through a record without a 'scopes' attribute
C20_Witness ==
  /\ GuardOnRecord
  /\ unit.arg.guard.check = "scopes"
  /\ unit.arg.guard.arg = <<>>
  /\ unit.arg.request.user[1].publicMetadata.scopes = None
  /\ unit.out.error = None

\* ------------------------------------------------------------------------
\* C21
\* ------------------------------------------------------------------------

\* the route of the request is guarded by requireOrgRole('admin') alone and
\* that guard has run
OrgRoleGuardRan(r) ==
  /\ Ran(r, "guard")
  /\ Len(request[r].route.preHandler) = 1
  /\ request[r].route.preHandler[1].check = "orgRole"
  /\ request[r].route.preHandler[1].arg = <<"admin">>

ErrOrgRoleAdmin ==
  [name |-> "AuthError", code |-> "FORBIDDEN",
   message |-> <<"Organization role '", "admin", "' required">>, statusCode |-> 403]

\* C21: on a route guarded by requireOrgRole('admin') the guard lets the
\* request through to the handler iff the organization role of the attached
\* record is exactly 'admin'; with a null role or another role ('member')
\* the request ends with 403, code FORBIDDEN and the message "Organization
\* role 'admin' required", and the handler does not run.
C21_RequireOrgRole ==
  \A r \in Requests :
    OrgRoleGuardRan(r) =>
      /\ user[r] # None
      /\ IF user[r][1].orgRole = [t |-> "string", v |-> "admin"]
         THEN /\ thrown[r] = None
              /\ pc[r] = "done" => (Ran(r, "handler") /\ reply[r][1].by = "handler")
         ELSE /\ thrown[r] = Some(ErrOrgRoleAdmin)
              /\ ~Ran(r, "handler")
              /\ pc[r] = "done" => reply[r] = Mapped(ErrOrgRoleAdmin)

\* a caller whose organization role is 'member' was answered 403 by
\* requireOrgRole('admin')
C21_Witness ==
  \E r \in Requests :
    /\ pc[r] = "done"
    /\ OrgRoleGuardRan(r)
    /\ user[r] # None
    /\ user[r][1].orgRole = [t |-> "string", v |-> "member"]
    /\ reply[r] = Mapped(ErrOrgRoleAdmin)

\* ------------------------------------------------------------------------
\* C22, C23
\* ------------------------------------------------------------------------

\* C22: requireOrgMembership(), run on a request with a record, succeeds
\* iff the organization identifier of the record is non-null, whatever its
\* organization role and slug; otherwise it fails with FORBIDDEN (403) and
\* the message 'Organization membership required'.
C22_RequireOrgMembership ==
  (GuardOnRecord /\ unit.arg.guard.check = "orgMembership") =>
    LET record == unit.arg.request.user[1]
    IN  IF record.orgId.t # "null"
        THEN unit.out.error = None
        ELSE /\ unit.out.error # None
             /\ IsAuthError(unit.out.error[1], "FORBIDDEN", 403,
                            <<"Organization membership required">>)

\* a record with an organization identifier and neither a role nor a slug
\* passes requireOrgMembership()
C22_Witness ==
  /\ GuardOnRecord
  /\ unit.arg.guard.check = "orgMembership"
  /\ unit.arg.request.user[1].orgId.t = "string"
  /\ unit.arg.request.user[1].orgRole.t = "null"
  /\ unit.arg.request.user[1].orgSlug.t = "null"
  /\ unit.out.error = None

\* C23: getUser(request) returns the record attached to the request, the
\* same and unchanged, when there is one; when the slot is absent it fails
\* with UNAUTHORIZED (401, 'Authentication required') and returns nothing;
\* it never returns an absent value and leaves the slot as it was.
C23_GetUser ==
  Calls("getUser") =>
    LET slot == unit.arg.request.user
    IN  /\ slot # None =>
             /\ unit.out.error = None
             /\ unit.out.returned = slot
        /\ slot = None =>
             /\ unit.out.returned = None
             /\ unit.out.error # None
             /\ IsAuthError(unit.out.error[1], "UNAUTHORIZED", 401, <<"Authentication required">>)
        /\ unit.out.returned = None <=> unit.out.error # None
        /\ unit.out.request = unit.arg.request

\* getUser on a request without a record has thrown UNAUTHORIZED
C23_Witness ==
  /\ Calls("getUser")
  /\ unit.arg.request.user = None
  /\ unit.out.error # None
  /\ unit.out.error[1].code = "UNAUTHORIZED"
  /\ unit.out.returned = None

\* ------------------------------------------------------------------------
\* C24, C25
\* ------------------------------------------------------------------------

\* a source of the secret (the option or the environment) supplies a
\* non-empty secret
Supplies(source) == source # None /\ source[1] # ""

\* C24: registration succeeds whenever options.secretKey or the
\* CLERK_SECRET_KEY environment variable supplies a non-empty secret, the
\* option being preferred; when neither does it fails with an error that is
\* not an AuthError and nothing (identity slot, pre-handler hook, error
\* mapper) has been installed.
C24_RegistrationSecret ==
  server # "starting" =>
    IF Supplies(options.secretKey) \/ Supplies(env)
    THEN /\ server = "ready"
         /\ startupError = None
         /\ verifyOptions # None
         /\ verifyOptions[1].secretKey =
              (IF Supplies(options.secretKey) THEN options.secretKey[1] ELSE env[1])
         /\ installed = {"decorateRequest", "preHandler", "errorHandler"}
    ELSE /\ server = "failed"
         /\ startupError # None
         /\ startupError[1].name # "AuthError"
         /\ installed = {}
         /\ verifyOptions = None

\* the marker of the route of the request says public: true
MarkedPublic(r) == request[r].route.config = Some([public |-> Some(TRUE)])

\* the Gate let the request through without looking at its credentials
Bypassed(r) ==
  /\ PastGate(r)
  /\ ~Ran(r, "extractToken")
  /\ oracleCalls[r] = <<>>
  /\ observed[r] = <<>>
  /\ user[r] = None

\* what the Gate does with a request whose route it treats as any other:
\* it extracts, and without a credential it stops before the delegate and
\* the handler
Gated(r) ==
  /\ PastGate(r) => Ran(r, "extractToken")
  /\ NoCredential(r) =>
       /\ oracleCalls[r] = <<>>
       /\ ~Ran(r, "guard")
       /\ ~Ran(r, "handler")

\* C25 as stated: with respectPublicRoutes = false the public marker is
\* ignored and a request without credential to a marked route is rejected
\* with 401; with the option omitted or true the marker is honoured; a
\* route without the marker is never public.
C25_Original ==
  \A r \in Requests :
    InFlight(r) =>
      /\ (options.respectPublicRoutes = Some(FALSE) /\ MarkedPublic(r)) =>
           /\ Gated(r)
           /\ (NoCredential(r) /\ pc[r] = "done") => reply[r] = Mapped(ErrUnauthorized)
      /\ (options.respectPublicRoutes # Some(FALSE) /\ MarkedPublic(r) /\ PastGate(r)) =>
           Bypassed(r)
      /\ ~MarkedPublic(r) => Gated(r)

\* C25: with respectPublicRoutes = false the public marker is ignored: a
\* request to a marked route goes through extraction and verification, and
\* without a credential it is refused with UNAUTHORIZED and answered 401
\* unless a configured failure observer raises (then the observer's
\* exception is left to the host); with the option omitted or true the
\* marker is honoured; a route whose marker is absent or false is never
\* public.
C25_PublicRecognitionToggle ==
  \A r \in Requests :
    InFlight(r) =>
      /\ (options.respectPublicRoutes = Some(FALSE) /\ MarkedPublic(r)) =>
           /\ Gated(r)
           /\ (NoCredential(r) /\ PastGate(r)) => raised[r] = <<ErrUnauthorized>>
           /\ (NoCredential(r) /\ pc[r] = "done") =>
                EndsWith401OrObserverFault(r, ErrUnauthorized)
      /\ (options.respectPublicRoutes # Some(FALSE) /\ MarkedPublic(r) /\ PastGate(r)) =>
           Bypassed(r)
      /\ ~MarkedPublic(r) => Gated(r)

\* with recognition disabled, a request without credential to a route
\* marked public got the 401 response
C25_Witness ==
  \E r \in Requests :
    /\ pc[r] = "done"
    /\ options.respectPublicRoutes = Some(FALSE)
    /\ MarkedPublic(r)
    /\ NoCredential(r)
    /\ Ran(r, "extractToken")
    /\ reply[r] = Mapped(ErrUnauthorized)

\* ------------------------------------------------------------------------
\* C26
\* ------------------------------------------------------------------------

\* the verification of the request failed: the oracle rejected, or the
\* claim set it returned could not be mapped
VerificationFailed(r) ==
  /\ answers[r] # <<>>
  /\ \/ answers[r][1].settle = "reject"
     \/ answers[r][1].payload = None

\* C26: for every request the oracle is called at most once and answers at
\* most once; after a failed verification the oracle is not called again,
\* no record is attached, no guard and no handler runs: the request goes to
\* the error handler and ends.
C26_SingleAttempt ==
  \A r \in Requests :
    /\ Len(oracleCalls[r]) <= 1
    /\ Count(events[r], "clerkVerifyToken") <= 1
    /\ Len(answers[r]) <= Len(oracleCalls[r])
    /\ VerificationFailed(r) =>
         /\ pc[r] \in {"errorHandler", "done"}
         /\ user[r] = None
         /\ thrown[r] # None
         /\ ~Ran(r, "attach") /\ ~Ran(r, "guard") /\ ~Ran(r, "handler")

\* a request whose token the oracle rejected is over after one call
C26_Witness ==
  \E r \in Requests :
    /\ pc[r] = "done"
    /\ OracleRejected(r)
    /\ Len(oracleCalls[r]) = 1
    /\ Count(events[r], "clerkVerifyToken") = 1

\* ------------------------------------------------------------------------
\* C27, C28, C29
\* ------------------------------------------------------------------------

\* C27: once a request was cancelled while its oracle call was outstanding,
\* the call is abandoned: whatever the oracle answers later, no Identity
\* Record is attached to the request and its handler is not invoked.
C27_CancelledNeverAttached ==
  \A r \in Requests :
    cancelled[r] =>
      /\ user[r] = None
      /\ ~Ran(r, "attach")
      /\ ~Ran(r, "handler")

\* what belongs to one request
Local(r) ==
  <<pc[r], request[r], user[r], todo[r], thrown[r], raised[r], escaped[r], reply[r],
    events[r], observed[r], oracleCalls[r], answers[r], cancelled[r]>>

\* the record, the oracle call and the error of each request come from that
\* request's own credential and from the oracle's answer to it
OwnCredentialOnly ==
  \A r \in Requests :
    /\ oracleCalls[r] # <<>> =>
         /\ Len(oracleCalls[r]) = 1
         /\ Some(oracleCalls[r][1].token) = extractToken(request[r])
    /\ answers[r] # <<>> =>
         /\ Len(answers[r]) = 1
         /\ answers[r][1] \in clerkVerifyToken(oracleCalls[r][1].token, oracleCalls[r][1].options)
    /\ user[r] # None =>
         /\ DelegateSucceeded(r)
         /\ user[r][1].raw = answers[r][1].payload[1]
         /\ user[r][1].userId = answers[r][1].payload[1].sub
    /\ (thrown[r] # None /\ ~Ran(r, "guard") /\ ~Ran(r, "handler")) =>
         IF answers[r] = <<>> THEN thrown[r] = Some(ErrUnauthorized)
         ELSE /\ VerificationFailed(r)
              /\ thrown[r] = Some(ExpectedForRejection(answers[r][1]))

\* a step changes what belongs to at most one request
OneRequestPerStep ==
  \A r, q \in Requests : (r # q /\ Local(r)' # Local(r)) => Local(q)' = Local(q)

\* C28: under every interleaving of two requests, the oracle call, the
\* record and the error of a request come from that request's own
\* credential and the oracle's answer to it, and no step of one request
\* changes anything that belongs to the other.
C28_RequestIsolation == []OwnCredentialOnly /\ [][OneRequestPerStep]_vars

\* while both requests await the oracle one is refused and the other gets
\* the record of its own credential
C28_Witness ==
  /\ pc["r1"] = "verifying"
  /\ Len(oracleCalls["r1"]) = 1
  /\ oracleCalls["r1"][1].token = TokAlice
  /\ OracleRejected("r2")
  /\ thrown["r2"] # None
  /\ user["r1"] = None

\* the verification options resolved at registration
ResolvedAtRegistration ==
  [secretKey |-> IF options.secretKey # None THEN options.secretKey[1] ELSE env[1],
   authorizedParties |-> options.authorizedParties,
   jwtKey |-> options.jwtKey]

\* every oracle call got the options resolved at registration
CallsGetResolvedOptions ==
  /\ server = "ready" => verifyOptions = Some(ResolvedAtRegistration)
  /\ \A r \in Requests :
       \A i \in 1..Len(oracleCalls[r]) : oracleCalls[r][i].options = ResolvedAtRegistration

\* once the plugin is registered no step changes the configuration
ConfigurationKept ==
  server = "ready" => (verifyOptions' = verifyOptions /\ options' = options /\ env' = env)

\* C29: the secret, the authorized parties and the offline key are resolved
\* at registration and never change afterwards; every oracle call, of every
\* request and under every interleaving, receives exactly these.
C29_ConfigurationFixed == []CallsGetResolvedOptions /\ [][ConfigurationKept]_vars

\* two overlapping requests both called the oracle with the authorized
\* parties and the offline key given at registration
C29_Witness ==
  /\ options.authorizedParties # None
  /\ options.jwtKey # None
  /\ \A r \in Requests :
       /\ Len(oracleCalls[r]) = 1
       /\ oracleCalls[r][1].options.authorizedParties = options.authorizedParties
       /\ oracleCalls[r][1].options.jwtKey = options.jwtKey

\* ------------------------------------------------------------------------
\* C30
\* ------------------------------------------------------------------------

\* what a derived guard owes to a record, from the record alone
Entitled(guard, record) ==
  CASE guard.check = "role" -> Granted(record, "roles", guard.arg[1])
    [] guard.check = "scopes" ->
         \A i \in 1..Len(guard.arg) : Granted(record, "scopes", guard.arg[i])
    [] guard.check = "orgMembership" -> record.orgId.t = "string"
    [] guard.check = "orgRole" -> record.orgRole.t = "string" /\ record.orgRole.v = guard.arg[1]

\* the error a guard owes to the identity slot of a request, None for a pass
Verdict(guard, slot) ==
  IF slot = None
  THEN Some([name |-> "AuthError", code |-> "UNAUTHORIZED",
             message |-> <<"Authentication required">>, statusCode |-> 401])
  ELSE IF Entitled(guard, slot[1]) THEN None
  ELSE Some([name |-> "AuthError", code |-> "FORBIDDEN",
             message |-> guard.errorMessage, statusCode |-> 403])

\* a guard of the request runs in this step
GuardStep(r) == events'[r] = Append(events[r], "guard")

\* the guard that runs gives the verdict its request's record calls for and
\* changes neither the record nor the request
GuardIsPure ==
  \A r \in Requests :
    GuardStep(r) =>
      /\ thrown'[r] = Verdict(Head(todo[r]), user[r])
      /\ user' = user
      /\ request' = request
      /\ reply' = reply

\* C30: each derived guard (requireRole, requireScopes, requireOrgMembership,
\* requireOrgRole), built once with its route and run for every request on
\* that route, gives each request the verdict that request's own record
\* calls for, whatever the earlier requests were, and leaves the record and
\* the request as they were.
C30_GuardsArePure == [][GuardIsPure]_vars

\* the second request served was refused by requireScopes(['read']) on the
\* record of its own caller
C30_Witness ==
  \E r \in Requests :
    /\ served = 2
    /\ Ran(r, "guard")
    /\ request[r].route.preHandler[1].check = "scopes"
    /\ user[r] # None
    /\ user[r][1].publicMetadata.scopes = None
    /\ thrown[r] # None
    /\ thrown[r][1].code = "FORBIDDEN"

\* ------------------------------------------------------------------------
\* C31
\* ------------------------------------------------------------------------

\* the request is on a non-public route, carried a usable credential, and
\* the Gate's pre-handler is over
PassedCredentialCheck(r) ==
  /\ PastGate(r)
  /\ ~PublicRoute(r)
  /\ Truthy(extractToken(request[r]))

\* the delegate failed with an AuthError of kind TOKEN_EXPIRED or
\* INVALID_TOKEN, which is what the Gate raised
DelegateFailedWithAuthError(r) ==
  /\ Len(raised[r]) = 1
  /\ raised[r][1].name = "AuthError"
  /\ raised[r][1].code \in {"TOKEN_EXPIRED", "INVALID_TOKEN"}
  /\ raised[r][1].statusCode = 401
  /\ raised[r][1] = ExpectedGateError(r)

\* a configured observer was handed the error the Gate raised
ObserverNotified(r) ==
  options.onAuthFailure # None => observed[r] = <<[error |-> raised[r][1], request |-> r]>>

\* C31 as stated: every failure of verifyToken is an AuthError of kind
\* TOKEN_EXPIRED or INVALID_TOKEN, and every request to a non-public route
\* that carried a credential ends with a record attached or with the
\* observer notified and a 401 response, never with a generic fault.
C31_Original ==
  \A r \in Requests :
    (PassedCredentialCheck(r) /\ user[r] = None) =>
      /\ DelegateFailedWithAuthError(r)
      /\ ObserverNotified(r)
      /\ pc[r] = "done" => (reply[r] = Mapped(raised[r][1]) /\ escaped[r] = None)

\* C31 (amended): every failure of verifyToken is an AuthError of kind
\* TOKEN_EXPIRED or INVALID_TOKEN, also when the oracle resolves with a claim
\* set that cannot be mapped and when it rejects with a value that is not an
\* Error; every request to a non-public route that carried a credential ends
\* with a record attached or with the observer notified and a 401 response
\* of that kind, unless a configured failure observer raises, in which case
\* the observer's exception is left to the host.
C31_VerifyFailuresAreAuthErrors ==
  \A r \in Requests :
    (PassedCredentialCheck(r) /\ user[r] = None) =>
      /\ DelegateFailedWithAuthError(r)
      /\ ObserverNotified(r)
      /\ pc[r] = "done" => EndsWith401OrObserverFault(r, raised[r][1])

\* witness of C31: the oracle resolved with a null claim set, the mapping
\* failed inside verifyToken, and the request got 401 INVALID_TOKEN after
\* the observer was told
C31_Witness ==
  \E r \in Requests :
    /\ pc[r] = "done"
    /\ PassedCredentialCheck(r)
    /\ answers[r] = <<Resolve(None)>>
    /\ observed[r] = <<[error |-> ErrInvalidToken, request |-> r]>>
    /\ reply[r] = Mapped(ErrInvalidToken)

\* ------------------------------------------------------------------------
\* C32
\* ------------------------------------------------------------------------

\* the request carries the header "Bearer " and a non-empty __session cookie
EmptyBearerWithCookie(r) ==
  /\ EmptyBearer(r)
  /\ HasSessionCookie(request[r])
  /\ SessionCookieValue(request[r]) # <<>>

\* C32: a request with the Authorization header "Bearer " and a non-empty
\* __session cookie, on a route the Gate guards, is rejected by the Gate
\* with UNAUTHORIZED: extraction returns the empty credential of the header,
\* the Gate takes it for a missing one, and the cookie is never handed to
\* the oracle.
C32_EmptyBearerHidesCookie ==
  \A r \in Requests :
    (InFlight(r) /\ ~PublicRoute(r) /\ EmptyBearerWithCookie(r)) =>
      /\ extractToken(request[r]) = Some(<<>>)
      /\ oracleCalls[r] = <<>>
      /\ answers[r] = <<>>
      /\ user[r] = None
      /\ pc[r] # "verifying"
      /\ ~Ran(r, "clerkVerifyToken") /\ ~Ran(r, "guard") /\ ~Ran(r, "handler")
      /\ PastGate(r) =>
           /\ raised[r] = <<ErrUnauthorized>>
           /\ pc[r] \in {"errorHandler", "done"}
           /\ options.onAuthFailure # None =>
                observed[r] = <<[error |-> ErrUnauthorized, request |-> r]>>

\* witness of C32: a request with "Bearer " and a session cookie the oracle
\* would accept was answered 401 UNAUTHORIZED
C32_Witness ==
  \E r \in Requests :
    /\ pc[r] = "done"
    /\ ~PublicRoute(r)
    /\ EmptyBearer(r)
    /\ request[r].cookies = Some([c \in {"__session"} |-> TokBob])
    /\ reply[r] = Mapped(ErrUnauthorized)

\* ------------------------------------------------------------------------
\* C33
\* ------------------------------------------------------------------------

\* the route is not public and carries permission guards
GuardedRoute(r) == ~PublicRoute(r) /\ request[r].route.preHandler # <<>>

\* the request carries no usable credential, or one the oracle rejected
Unauthenticated(r) == ~Truthy(extractToken(request[r])) \/ OracleRejected(r)

AuthenticationKinds == {"UNAUTHORIZED", "INVALID_TOKEN", "TOKEN_EXPIRED"}

\* the request was answered 403 FORBIDDEN on account of a guard
ForbiddenByGuard(r) ==
  /\ Len(reply[r]) = 1
  /\ reply[r][1].status = 403
  /\ reply[r][1].body.error.code = "FORBIDDEN"
  /\ Ran(r, "guard")

\* C33 as stated: on a guarded non-public route a request without credential
\* or with a rejected one always ends with 401 and an authentication kind,
\* no guard having run; a 403 FORBIDDEN from a guard implies that the
\* verification of the request succeeded.
C33_Original ==
  \A r \in Requests :
    /\ (PastGate(r) /\ GuardedRoute(r) /\ Unauthenticated(r)) =>
         /\ ~Ran(r, "guard")
         /\ ExpectedGateError(r).code \in AuthenticationKinds
         /\ pc[r] = "done" => reply[r] = Mapped(ExpectedGateError(r))
    /\ ForbiddenByGuard(r) => (DelegateSucceeded(r) /\ Ran(r, "attach"))

\* C33 (amended): on a guarded non-public route a request without credential
\* or with a rejected one never has a guard run and ends with 401 and an
\* authentication kind (UNAUTHORIZED, INVALID_TOKEN or TOKEN_EXPIRED),
\* unless a configured failure observer raises, in which case the
\* observer's exception is left to the host; a 403 FORBIDDEN from a guard
\* implies that the verification of the request succeeded.
C33_AuthenticationFirst ==
  \A r \in Requests :
    /\ (PastGate(r) /\ GuardedRoute(r) /\ Unauthenticated(r)) =>
         /\ ~Ran(r, "guard")
         /\ raised[r] = <<ExpectedGateError(r)>>
         /\ ExpectedGateError(r).code \in AuthenticationKinds
         /\ pc[r] = "done" => EndsWith401OrObserverFault(r, ExpectedGateError(r))
    /\ ForbiddenByGuard(r) =>
         /\ DelegateSucceeded(r)
         /\ Ran(r, "attach")
         /\ Precedes(r, "attach", "guard")

\* witness of C33: a request without credential to a route guarded by
\* requireRole('admin') got 401 UNAUTHORIZED and the guard never ran
C33_Witness ==
  \E r \in Requests :
    /\ pc[r] = "done"
    /\ GuardedRoute(r)
    /\ request[r].route.preHandler[1].check = "role"
    /\ NoCredential(r)
    /\ ~Ran(r, "guard")
    /\ reply[r] = Mapped(ErrUnauthorized)

\* ------------------------------------------------------------------------
\* C34
\* ------------------------------------------------------------------------

\* the request carries a credential the oracle accepts
CarriesAcceptedCredential(r) ==
  /\ Truthy(extractToken(request[r]))
  /\ \E o \in clerkVerifyToken(extractToken(request[r])[1], verifyOptions[1]) :
       o.settle = "resolve" /\ o.payload # None

\* C34: on a route bypassed as public a request carrying a credential the
\* oracle would accept has no Identity Record: request.user stays absent,
\* a permission guard of the route and a getUser call of its handler fail
\* with UNAUTHORIZED, answered 401, and the observer is not called.
C34_PublicRouteStaysAnonymous ==
  \A r \in Requests :
    (InFlight(r) /\ PublicRoute(r) /\ CarriesAcceptedCredential(r)) =>
      /\ user[r] = None
      /\ oracleCalls[r] = <<>>
      /\ observed[r] = <<>>
      /\ Ran(r, "guard") => (raised[r] = <<ErrUnauthorized>> /\ ~Ran(r, "handler"))
      /\ (Ran(r, "handler") /\ request[r].route.handler = "getUser") =>
           raised[r] = <<ErrUnauthorized>>
      /\ (Ran(r, "handler") /\ request[r].route.handler = "plain") =>
           (raised[r] = <<>> /\ reply[r] = <<HandlerReply(None)>>)
      /\ (pc[r] = "done" /\ raised[r] = <<ErrUnauthorized>>) =>
           (reply[r] = Mapped(ErrUnauthorized) /\ escaped[r] = None)

\* witness of C34: a request with a valid bearer credential to a public
\* route whose handler calls getUser was answered 401 UNAUTHORIZED
C34_Witness ==
  \E r \in Requests :
    /\ pc[r] = "done"
    /\ PublicRoute(r)
    /\ request[r].authorization = Some(BearerPrefix \o TokAlice)
    /\ request[r].route.handler = "getUser"
    /\ Ran(r, "handler")
    /\ user[r] = None
    /\ reply[r] = Mapped(ErrUnauthorized)

\* ------------------------------------------------------------------------
\* C35
\* ------------------------------------------------------------------------

\* an AuthError was raised for the request after the Gate had let it pass
RaisedAfterGate(r) ==
  /\ Ran(r, "guard") \/ Ran(r, "handler")
  /\ raised[r] # <<>>
  /\ raised[r][Len(raised[r])].name = "AuthError"

\* C35: the failure observer is called only for a failure the Gate itself
\* raises: the error it receives is of kind UNAUTHORIZED, INVALID_TOKEN or
\* TOKEN_EXPIRED, never FORBIDDEN, and its request reached neither guard nor
\* handler; an AuthError raised by a permission guard, by getUser or by the
\* handler goes to the error mapper with no log entry and no observer call.
C35_ObserverOnlyForGateFailures ==
  \A r \in Requests :
    /\ \A i \in 1..Len(observed[r]) :
         /\ observed[r][i].error.name = "AuthError"
         /\ observed[r][i].error.code \in {"UNAUTHORIZED", "INVALID_TOKEN", "TOKEN_EXPIRED"}
         /\ observed[r][i].error = raised[r][1]
    /\ observed[r] # <<>> => (GateFailed(r) /\ ~Ran(r, "guard") /\ ~Ran(r, "handler"))
    /\ (Ran(r, "guard") \/ Ran(r, "handler")) =>
         /\ observed[r] = <<>>
         /\ ~Ran(r, "onAuthFailure")
         /\ ~Ran(r, "log.warn")
    /\ (RaisedAfterGate(r) /\ pc[r] = "done") =>
         /\ reply[r] = Mapped(raised[r][1])
         /\ escaped[r] = None

\* witness of C35: with an observer configured, a request refused by a
\* guard was answered 403 FORBIDDEN and the observer was not called
C35_Witness ==
  \E r \in Requests :
    /\ pc[r] = "done"
    /\ options.onAuthFailure # None
    /\ RaisedAfterGate(r)
    /\ raised[r][1].code = "FORBIDDEN"
    /\ Len(reply[r]) = 1 /\ reply[r][1].status = 403
    /\ observed[r] = <<>>

\* ------------------------------------------------------------------------
\* C36
\* ------------------------------------------------------------------------

\* the status the wire mapping gives a code
WireStatus(code) == IF code = "FORBIDDEN" THEN 403 ELSE 401

\* the i-th error raised for the request was constructed by the route's own
\* handler, not by the library
ByIntegrator(r, i) ==
  /\ Ran(r, "handler")
  /\ i = Len(raised[r])
  /\ request[r].route.handler \in {"throwsError", "throwsAuthError"}

\* C36: every AuthError raised by the Gate, the delegate, a permission
\* guard or getUser carries the status of its code (401 for UNAUTHORIZED,
\* INVALID_TOKEN and TOKEN_EXPIRED, 403 for FORBIDDEN), so does every
\* response sent for such an error; a response whose status differs from
\* the status of its code was sent for an AuthError the route's handler
\* constructed with an explicit status.
C36_OwnErrorsFollowWireMapping ==
  \A r \in Requests :
    /\ \A i \in 1..Len(raised[r]) :
         ~ByIntegrator(r, i) =>
           /\ raised[r][i].name = "AuthError"
           /\ raised[r][i].code \in AuthErrorCode
           /\ raised[r][i].statusCode = WireStatus(raised[r][i].code)
    /\ \A i \in 1..Len(reply[r]) :
         reply[r][i].by = "authErrorHandler" =>
           /\ ~ByIntegrator(r, Len(raised[r])) =>
                reply[r][i].status = WireStatus(reply[r][i].body.error.code)
           /\ reply[r][i].status # WireStatus(reply[r][i].body.error.code) =>
                /\ request[r].route.handler = "throwsAuthError"
                /\ Ran(r, "handler")
                /\ thrown[r] = Some(AuthError("UNAUTHORIZED", <<"Custom">>, Some(403)))

\* witness of C36: the UNAUTHORIZED of a guard on a public route was sent
\* with 401, and so a library error reached the wire with its code's status
C36_Witness ==
  \E r \in Requests :
    /\ pc[r] = "done"
    /\ PublicRoute(r)
    /\ Ran(r, "guard")
    /\ raised[r] = <<ErrUnauthorized>>
    /\ Len(reply[r]) = 1
    /\ reply[r][1].status = 401
    /\ reply[r][1].body.error.code = "UNAUTHORIZED"

\* ------------------------------------------------------------------------
\* C37
\* ------------------------------------------------------------------------

\* C37: for every request the Gate aborts, the warning log entry is written
\* once, before the observer is called, unless logFailures is false, in
\* which case no entry is written; whatever logFailures is, a configured
\* observer is called once with the Gate's error and the request ends as it
\* does with logging on.
C37_LogBeforeObserver ==
  \A r \in Requests :
    GateFailed(r) =>
      /\ Count(events[r], "log.warn") = IF options.logFailures = Some(FALSE) THEN 0 ELSE 1
      /\ Precedes(r, "extractToken", "log.warn")
      /\ options.logFailures # Some(FALSE) => Precedes(r, "log.warn", "onAuthFailure")
      /\ Count(events[r], "onAuthFailure") = IF options.onAuthFailure = None THEN 0 ELSE 1
      /\ observed[r] = IF options.onAuthFailure = None THEN <<>>
                       ELSE <<[error |-> ExpectedGateError(r), request |-> r]>>
      /\ pc[r] = "done" => EndsWith401OrObserverFault(r, ExpectedGateError(r))

\* witness of C37: with logging on and an observer configured, the log
\* entry of a request without credential came right before the observer call
C37_Witness ==
  \E r \in Requests :
    /\ pc[r] = "done"
    /\ GateFailed(r)
    /\ options.logFailures # Some(FALSE)
    /\ options.onAuthFailure = Some("returns")
    /\ events[r] = <<"extractToken", "log.warn", "onAuthFailure", "errorHandler">>
    /\ reply[r] = Mapped(ErrUnauthorized)

\* with logging off and an observer configured, the observer was still
\* called and the request was answered as with logging on
C37_WitnessLogOff ==
  \E r \in Requests :
    /\ pc[r] = "done"
    /\ GateFailed(r)
    /\ options.logFailures = Some(FALSE)
    /\ options.onAuthFailure = Some("returns")
    /\ events[r] = <<"extractToken", "onAuthFailure", "errorHandler">>
    /\ reply[r] = Mapped(ErrUnauthorized)
====
